---- MODULE Spec2Model ----
(***************************************************************************)
(* Model of the external-identity-provider federation core of the OAuth    *)
(* server: the callback handler of pkg/oauth/external (Handler.ServeHTTP,  *)
(* Handler.AuthenticatePassword, defaultState) and the union               *)
(* authentication handler of pkg/oauth/handlers.                           *)
(*                                                                         *)
(* Strings that the code encodes, decodes or parses are sequences of byte  *)
(* values (0..255).  Str turns a tuple of one-character strings into such  *)
(* a sequence.  Strings the code only passes around or compares (header    *)
(* names, challenger names, error messages) are TLA+ strings.              *)
(***************************************************************************)
EXTENDS Integers, Sequences, FiniteSets, TLC

(***************************************************************************)
(* Naming a value                                                          *)
(*                                                                         *)
(* With(v, LAMBDA x : e) is e with x standing for the value of v: v is     *)
(* evaluated once, however often e uses x.                                 *)
(***************************************************************************)
The(S) == CHOOSE x \in S : TRUE

With(v, F(_)) == The({F(x) : x \in {v}})

\* The least number of a non-empty set of numbers.
Min(S) == CHOOSE x \in S : \A y \in S : x <= y

(***************************************************************************)
(* Bytes and characters                                                    *)
(***************************************************************************)
\* The printable ASCII characters, code 32 (space) first.  Code 96 cannot be
\* written as a TLA+ string and has a placeholder that no literal uses.
Printable ==
  <<
     " ", "!", "\"", "#", "$", "%", "&", "'", "(", ")", "*", "+", ",", "-", ".", "/",
     "0", "1", "2", "3", "4", "5", "6", "7", "8", "9", ":", ";", "<", "=", ">", "?",
     "@", "A", "B", "C", "D", "E", "F", "G", "H", "I", "J", "K", "L", "M", "N", "O",
     "P", "Q", "R", "S", "T", "U", "V", "W", "X", "Y", "Z", "[", "\\", "]", "^", "_",
     "(grave)", "a", "b", "c", "d", "e", "f", "g", "h", "i", "j", "k", "l", "m", "n", "o",
     "p", "q", "r", "s", "t", "u", "v", "w", "x", "y", "z", "{", "|", "}", "~"
  >>

PrintableSet == {Printable[i] : i \in 1..Len(Printable)}

\* The byte value of a printable character.
Ord == [c \in PrintableSet |-> 31 + (CHOOSE i \in 1..Len(Printable) : Printable[i] = c)]

\* A string literal as a sequence of bytes.
Str(t) == [i \in 1..Len(t) |-> Ord[t[i]]]

\* The strings of bytes.
ByteStrings == Seq(0..255)

\* strings.Join(parts, ""): the concatenation of a sequence of strings.
Concat[parts \in Seq(ByteStrings)] ==
  IF parts = <<>> THEN <<>>
  ELSE IF Len(parts) = 1 THEN parts[1]
  ELSE Concat[SubSeq(parts, 1, Len(parts) \div 2)]
       \o Concat[SubSeq(parts, (Len(parts) \div 2) + 1, Len(parts))]

\* The first index of byte c in s, or 0 (strings.IndexByte, 1-based).
IndexByte(s, c) ==
  With({i \in 1..Len(s) : s[i] = c}, LAMBDA hits : IF hits = {} THEN 0 ELSE Min(hits))

\* s < t in Go's string order (bytewise lexicographic).
StrLess(s, t) ==
  \E i \in 1..Len(t) :
     /\ \A j \in 1..(i-1) : j <= Len(s) /\ s[j] = t[j]
     /\ \/ i = Len(s) + 1
        \/ i <= Len(s) /\ s[i] < t[i]

\* strings.Cut(str, sep): [before, after, found]
Cut(str, sep) ==
  With(IndexByte(str, sep), LAMBDA i :
    IF i = 0
    THEN [before |-> str, after |-> <<>>, found |-> FALSE]
    ELSE [before |-> SubSeq(str, 1, i - 1), after |-> SubSeq(str, i + 1, Len(str)), found |-> TRUE])

HasPrefix(str, p) == Len(str) >= Len(p) /\ SubSeq(str, 1, Len(p)) = p

(***************************************************************************)
(* encoding/base64, URLEncoding (URL-safe alphabet, '=' padding)           *)
(***************************************************************************)
\* The URL-safe base64 alphabet, value 0 first.
Base64Alphabet ==
  <<
     "A", "B", "C", "D", "E", "F", "G", "H", "I", "J", "K", "L", "M", "N", "O", "P",
     "Q", "R", "S", "T", "U", "V", "W", "X", "Y", "Z", "a", "b", "c", "d", "e", "f",
     "g", "h", "i", "j", "k", "l", "m", "n", "o", "p", "q", "r", "s", "t", "u", "v",
     "w", "x", "y", "z", "0", "1", "2", "3", "4", "5", "6", "7", "8", "9", "-", "_"
  >>

Base64Codes == [v \in 0..63 |-> Ord[Base64Alphabet[v + 1]]]

Base64CodeSet == {Base64Codes[v] : v \in 0..63}

IsBase64Char(b) == b \in Base64CodeSet

Base64Value(b) == CHOOSE v \in 0..63 : Base64Codes[v] = b

PadChar == Ord["="]

\* The i-th character of the encoding of bytes: every three bytes make four
\* characters of six bits each; a last group of one or two bytes is padded.
Base64EncodeChar(bytes, i) ==
  LET q    == (i - 1) \div 4
      k    == (i - 1) % 4
      B(j) == IF 3 * q + j <= Len(bytes) THEN bytes[3 * q + j] ELSE 0
  IN IF k = 0 THEN Base64Codes[B(1) \div 4]
     ELSE IF k = 1 THEN Base64Codes[(B(1) % 4) * 16 + (B(2) \div 16)]
     ELSE IF k = 2 THEN (IF 3 * q + 2 > Len(bytes) THEN PadChar
                         ELSE Base64Codes[(B(2) % 16) * 4 + (B(3) \div 64)])
     ELSE (IF 3 * q + 3 > Len(bytes) THEN PadChar ELSE Base64Codes[B(3) % 64])

\* base64.URLEncoding.EncodeToString
Base64Encode(bytes) ==
  [i \in 1..(((Len(bytes) + 2) \div 3) * 4) |-> Base64EncodeChar(bytes, i)]

\* What base64.URLEncoding.DecodeString accepts: quanta of four characters
\* of the alphabet; padding is required, and stands only as the last one or
\* two characters of the last quantum.  Trailing bits are not checked.
Base64Valid(s) ==
  /\ Len(s) % 4 = 0
  /\ \A i \in 1..Len(s) :
       \/ IsBase64Char(s[i])
       \/ s[i] = PadChar /\ i = Len(s)
       \/ s[i] = PadChar /\ i = Len(s) - 1 /\ s[Len(s)] = PadChar

\* The j-th byte of the decoding of s.
Base64DecodeByte(s, j) ==
  LET q    == (j - 1) \div 3
      k    == (j - 1) % 3
      V(i) == Base64Value(s[4 * q + i])
  IN IF k = 0 THEN V(1) * 4 + (V(2) \div 16)
     ELSE IF k = 1 THEN (V(2) % 16) * 16 + (V(3) \div 4)
     ELSE (V(3) % 4) * 64 + V(4)

\* base64.URLEncoding.DecodeString: [ok, bytes]
Base64Decode(s) ==
  IF ~ Base64Valid(s) THEN [ok |-> FALSE, bytes |-> <<>>]
  ELSE LET pads == Cardinality({i \in 1..Len(s) : s[i] = PadChar})
       IN [ok |-> TRUE,
           bytes |-> [j \in 1..((Len(s) \div 4) * 3 - pads) |-> Base64DecodeByte(s, j)]]

(***************************************************************************)
(* net/url: query escaping, url.Values, ParseQuery                         *)
(***************************************************************************)
HexDigits == Str(<<"0","1","2","3","4","5","6","7","8","9","A","B","C","D","E","F">>)

IsDigit(b) == b >= Ord["0"] /\ b <= Ord["9"]

IsUpper(b) == b >= Ord["A"] /\ b <= Ord["Z"]

IsLower(b) == b >= Ord["a"] /\ b <= Ord["z"]

IsAlpha(b) == IsUpper(b) \/ IsLower(b)

\* url.ishex
IsHex(b) ==
  \/ IsDigit(b)
  \/ b >= Ord["a"] /\ b <= Ord["f"]
  \/ b >= Ord["A"] /\ b <= Ord["F"]

\* url.unhex
UnHex(b) ==
  IF IsDigit(b) THEN b - Ord["0"]
  ELSE IF b >= Ord["a"] /\ b <= Ord["f"] THEN b - Ord["a"] + 10
  ELSE b - Ord["A"] + 10

\* url.shouldEscape in query-component mode: everything but the unreserved
\* characters is escaped.
ShouldEscape(b) ==
  ~ (IsAlpha(b) \/ IsDigit(b) \/ b \in {Ord["-"], Ord["_"], Ord["."], Ord["~"]})

\* How url.QueryEscape writes one byte.
EscapeByte(b) ==
  IF b = Ord[" "] THEN << Ord["+"] >>
  ELSE IF ShouldEscape(b)
       THEN << Ord["%"], HexDigits[(b \div 16) + 1], HexDigits[(b % 16) + 1] >>
       ELSE << b >>

\* url.QueryEscape
QueryEscape(str) == Concat[[i \in 1..Len(str) |-> EscapeByte(str[i])]]

\* The first pass of url.unescape: every '%' is followed by two hex digits.
ValidEscapes(str) ==
  \A i \in 1..Len(str) :
     str[i] = Ord["%"] => (i + 2 <= Len(str) /\ IsHex(str[i+1]) /\ IsHex(str[i+2]))

\* The byte url.unescape writes for the input that starts at index i.
UnescapeAt(str, i) ==
  IF str[i] = Ord["%"] THEN UnHex(str[i+1]) * 16 + UnHex(str[i+2])
  ELSE IF str[i] = Ord["+"] THEN Ord[" "]
  ELSE str[i]

\* The second pass of url.unescape in query-component mode, on a string with
\* valid escapes: one byte for every "%XX" and for every other byte.
UnescapeBytes(str) ==
  With(SelectSeq([i \in 1..Len(str) |-> i],
                 LAMBDA i : ~ (\/ i > 1 /\ str[i-1] = Ord["%"]
                               \/ i > 2 /\ str[i-2] = Ord["%"])),
       LAMBDA starts : [k \in 1..Len(starts) |-> UnescapeAt(str, starts[k])])

\* url.QueryUnescape: [ok, str]
QueryUnescape(str) ==
  IF ValidEscapes(str)
  THEN [ok |-> TRUE, str |-> UnescapeBytes(str)]
  ELSE [ok |-> FALSE, str |-> <<>>]

\* url.Values is a map from a key to its values in order of arrival.
EmptyValues == [k \in {} |-> <<>>]

\* url.Values.Get: the first value of the key, or "".
ValuesGet(v, key) ==
  IF key \in DOMAIN v /\ Len(v[key]) > 0 THEN v[key][1] ELSE <<>>

\* url.Values.Set
ValuesSet(v, key, value) ==
  [k \in DOMAIN v \cup {key} |-> IF k = key THEN << value >> ELSE v[k]]

\* The pieces of a query between its '&' separators.
SplitPairs[query \in ByteStrings] ==
  IF query = <<>> THEN <<>>
  ELSE With(Cut(query, Ord["&"]), LAMBDA c : << c.before >> \o SplitPairs[c.after])

\* One piece of a query: skipped when empty; bad when it holds ';' or a bad
\* escape; else a key and a value, split at the first '='.
ParsePair(pair) ==
  IF IndexByte(pair, Ord[";"]) # 0 THEN [skip |-> TRUE, bad |-> TRUE]
  ELSE IF pair = <<>> THEN [skip |-> TRUE, bad |-> FALSE]
  ELSE With(Cut(pair, Ord["="]), LAMBDA kv :
         IF ~ ValidEscapes(kv.before) \/ ~ ValidEscapes(kv.after)
         THEN [skip |-> TRUE, bad |-> TRUE]
         ELSE [skip |-> FALSE, bad |-> FALSE,
               key |-> UnescapeBytes(kv.before), value |-> UnescapeBytes(kv.after)])

\* The values of the pairs that came with the key, in order.
PairValues(pairs, key) ==
  With(SelectSeq(pairs, LAMBDA p : ~ p.skip /\ p.key = key), LAMBDA sel :
    [i \in 1..Len(sel) |-> sel[i].value])

\* url.ParseQuery: [ok, values].  A bad pair is skipped and makes the call
\* fail; the other pairs are kept.
ParseQuery(query) ==
  With(SplitPairs[query], LAMBDA pieces :
  With([i \in 1..Len(pieces) |-> ParsePair(pieces[i])], LAMBDA pairs :
    [ok     |-> \A i \in 1..Len(pairs) : ~ pairs[i].bad,
     values |-> [k \in {pairs[i].key : i \in {j \in 1..Len(pairs) : ~ pairs[j].skip}} |->
                   PairValues(pairs, k)]]))

\* sort.Strings over the keys of a map
SortedKeys[keys \in SUBSET ByteStrings] ==
  IF keys = {} THEN <<>>
  ELSE With(CHOOSE k \in keys : \A o \in keys \ {k} : StrLess(k, o), LAMBDA least :
         << least >> \o SortedKeys[keys \ {least}])

\* "&key=value" for every value of one key
EncodePairs(key, vals) ==
  With(<< Ord["&"] >> \o QueryEscape(key) \o << Ord["="] >>, LAMBDA prefix :
    Concat[[i \in 1..Len(vals) |-> prefix \o QueryEscape(vals[i])]])

\* url.Values.Encode: "key=value" pairs joined by '&', sorted by key.
ValuesEncode(v) ==
  With(SortedKeys[DOMAIN v], LAMBDA keys :
  With(Concat[[i \in 1..Len(keys) |-> EncodePairs(keys[i], v[keys[i]])]], LAMBDA all :
    IF all = <<>> THEN <<>> ELSE Tail(all)))

(***************************************************************************)
(* The state token (pkg/oauth/external)                                    *)
(***************************************************************************)
CsrfKey == Str(<<"c","s","r","f">>)

ThenKey == Str(<<"t","h","e","n">>)

\* A faulty encodeState: the csrf and then values are joined as they are,
\* without URL-encoding.
encodeStateUnescaped(values) ==
  Base64Encode(CsrfKey \o << Ord["="] >> \o ValuesGet(values, CsrfKey) \o << Ord["&"] >>
               \o ThenKey \o << Ord["="] >> \o ValuesGet(values, ThenKey))

\* encodeState: URL-encode, then base64-encode.
encodeState(values) == With(ValuesEncode(values), LAMBDA encoded : Base64Encode(encoded))

\* decodeState: [ok, values]; ok is FALSE when the base64 layer or the
\* form layer cannot be reversed.
decodeState(state) ==
  With(Base64Decode(state), LAMBDA decodedState :
    IF ~ decodedState.ok
    THEN [ok |-> FALSE, values |-> EmptyValues]
    ELSE ParseQuery(decodedState.bytes))

(***************************************************************************)
(* net/url: url.Parse, URL.Query, URL.String                               *)
(*                                                                         *)
(* The URL keeps its path, authority and fragment in the escaped form it   *)
(* was parsed from: URL.String writes a valid escaped form back unchanged. *)
(* User information in the authority is not modelled.                      *)
(***************************************************************************)
\* url.stringContainsCTLByte
ContainsCTLByte(str) == \E i \in 1..Len(str) : str[i] < 32 \/ str[i] = 127

\* Where the scan of url.getScheme ends: at a ':', or at a byte a scheme
\* cannot hold (it starts with a letter; digits, '+', '-', '.' may follow).
SchemeStops(rawURL) ==
  {i \in 1..Len(rawURL) :
     \/ rawURL[i] = Ord[":"]
     \/ /\ ~ IsAlpha(rawURL[i])
        /\ ~ (i > 1 /\ (IsDigit(rawURL[i]) \/ rawURL[i] \in {Ord["+"], Ord["-"], Ord["."]}))}

\* url.getScheme: [ok, scheme, rest]
GetScheme(rawURL) ==
  With(SchemeStops(rawURL), LAMBDA stops :
    IF stops = {} THEN [ok |-> TRUE, scheme |-> <<>>, rest |-> rawURL]
    ELSE With(Min(stops), LAMBDA i :
      IF rawURL[i] # Ord[":"] THEN [ok |-> TRUE, scheme |-> <<>>, rest |-> rawURL]
      ELSE IF i = 1 THEN [ok |-> FALSE, scheme |-> <<>>, rest |-> <<>>]
      ELSE [ok |-> TRUE, scheme |-> SubSeq(rawURL, 1, i - 1),
            rest |-> SubSeq(rawURL, i + 1, Len(rawURL))]))

\* The bytes url.parseHost accepts in a host name or port.
ValidHost(host) ==
  \A i \in 1..Len(host) :
     IsAlpha(host[i]) \/ IsDigit(host[i]) \/ host[i] \in {Ord["-"], Ord["."], Ord["_"], Ord["~"], Ord[":"]}

NoURL ==
  [scheme |-> <<>>, opaque |-> <<>>, host |-> <<>>, path |-> <<>>,
   rawQuery |-> <<>>, forceQuery |-> FALSE, fragment |-> <<>>]

\* The query is cut off at the first '?'; a lone '?' at the end only forces
\* an empty query: [rest, rawQuery, forceQuery]
SplitQuery(str) ==
  IF Len(str) > 0 /\ {i \in 1..Len(str) : str[i] = Ord["?"]} = {Len(str)}
  THEN [rest |-> SubSeq(str, 1, Len(str) - 1), rawQuery |-> <<>>, forceQuery |-> TRUE]
  ELSE With(Cut(str, Ord["?"]), LAMBDA q :
         [rest |-> q.before, rawQuery |-> q.after, forceQuery |-> FALSE])

\* A rest that starts with "//" (and, without a scheme, not with "///")
\* starts with an authority, which ends at the next '/': [host, path]
SplitAuthority(scheme, rest) ==
  IF /\ HasPrefix(rest, << Ord["/"], Ord["/"] >>)
     /\ (scheme # <<>> \/ ~ HasPrefix(rest, << Ord["/"], Ord["/"], Ord["/"] >>))
  THEN With(SubSeq(rest, 3, Len(rest)), LAMBDA after :
       With(IndexByte(after, Ord["/"]), LAMBDA slash :
         IF slash = 0 THEN [host |-> after, path |-> <<>>]
         ELSE [host |-> SubSeq(after, 1, slash - 1), path |-> SubSeq(after, slash, Len(after))]))
  ELSE [host |-> <<>>, path |-> rest]

\* url.parse(rawURL, viaRequest = false), after the fragment was cut off
ParseNoFragment(u) ==
  IF ContainsCTLByte(u) THEN [ok |-> FALSE, url |-> NoURL]
  ELSE IF u = <<>> THEN [ok |-> TRUE, url |-> NoURL]
  ELSE IF u = << Ord["*"] >> THEN [ok |-> TRUE, url |-> [NoURL EXCEPT !.path = u]]
  ELSE With(GetScheme(u), LAMBDA sch :
    IF ~ sch.ok THEN [ok |-> FALSE, url |-> NoURL]   \* missing protocol scheme
    ELSE With(SplitQuery(sch.rest), LAMBDA q :
         With([NoURL EXCEPT !.scheme = sch.scheme, !.rawQuery = q.rawQuery,
                            !.forceQuery = q.forceQuery], LAMBDA base :
      IF ~ HasPrefix(q.rest, << Ord["/"] >>) /\ sch.scheme # <<>>
      THEN [ok |-> TRUE, url |-> [base EXCEPT !.opaque = q.rest]]
      ELSE IF ~ HasPrefix(q.rest, << Ord["/"] >>)
              /\ IndexByte(Cut(q.rest, Ord["/"]).before, Ord[":"]) # 0
      THEN [ok |-> FALSE, url |-> NoURL]             \* first path segment cannot contain colon
      ELSE With(SplitAuthority(sch.scheme, q.rest), LAMBDA a :
        IF ~ ValidHost(a.host) \/ ~ ValidEscapes(a.path)
        THEN [ok |-> FALSE, url |-> NoURL]
        ELSE [ok |-> TRUE, url |-> [base EXCEPT !.host = a.host, !.path = a.path]]))))

\* url.Parse: [ok, url]
URLParse(rawURL) ==
  With(Cut(rawURL, Ord["#"]), LAMBDA c :
  With(ParseNoFragment(c.before), LAMBDA p :
    IF ~ p.ok \/ ~ ValidEscapes(c.after)
    THEN [ok |-> FALSE, url |-> NoURL]
    ELSE [ok |-> TRUE, url |-> [p.url EXCEPT !.fragment = c.after]]))

\* URL.Query: the parsed RawQuery, malformed pairs silently dropped
URLQuery(u) == ParseQuery(u.rawQuery).values

\* URL.String
URLString(u) ==
  LET scheme == IF u.scheme # <<>> THEN u.scheme \o << Ord[":"] >> ELSE <<>>
      slashes == IF (u.scheme # <<>> \/ u.host # <<>>) /\ (u.host # <<>> \/ u.path # <<>>)
                 THEN << Ord["/"], Ord["/"] >> ELSE <<>>
      sep    == IF u.path # <<>> /\ u.path[1] # Ord["/"] /\ u.host # <<>>
                THEN << Ord["/"] >> ELSE <<>>
      dot    == IF u.scheme = <<>> /\ u.host = <<>>
                   /\ IndexByte(Cut(u.path, Ord["/"]).before, Ord[":"]) # 0
                THEN << Ord["."], Ord["/"] >> ELSE <<>>
      body   == IF u.opaque # <<>> THEN u.opaque
                ELSE slashes \o u.host \o sep \o dot \o u.path
      query  == IF u.forceQuery \/ u.rawQuery # <<>> THEN << Ord["?"] >> \o u.rawQuery ELSE <<>>
      frag   == IF u.fragment # <<>> THEN << Ord["#"] >> \o u.fragment ELSE <<>>
  IN scheme \o body \o query \o frag

(***************************************************************************)
(* net/http: the response writer                                           *)
(***************************************************************************)
\* http.Header is a map from a header name to its values in order.
EmptyHeader == [k \in {} |-> <<>>]

\* A response nothing was written to: no status (code 0), no header, no body.
\* writeHeaderCalls lists every status a handler asked to write.
FreshResponse ==
  [code |-> 0, header |-> EmptyHeader, body |-> <<>>, writeHeaderCalls |-> <<>>]

\* http.Header.Get: the first value of the header, or "".
HeaderGet(h, key) == IF key \in DOMAIN h /\ Len(h[key]) > 0 THEN h[key][1] ELSE <<>>

\* h[key]: every value of the header
HeaderValues(h, key) == IF key \in DOMAIN h THEN h[key] ELSE <<>>

\* http.Header.Add
HeaderAdd(h, key, value) ==
  [k \in DOMAIN h \cup {key} |-> IF k = key THEN HeaderValues(h, key) \o << value >> ELSE h[k]]

\* http.Header.Set
HeaderSet(h, key, value) ==
  [k \in DOMAIN h \cup {key} |-> IF k = key THEN << value >> ELSE h[k]]

\* ResponseWriter.WriteHeader: the first status written stands.
WriteHeader(w, code) ==
  [w EXCEPT !.code = IF @ = 0 THEN code ELSE @,
            !.writeHeaderCalls = Append(@, code)]

\* ResponseWriter.Write: an unwritten status becomes 200.
WriteBody(w, chunk) ==
  [w EXCEPT !.code = IF @ = 0 THEN 200 ELSE @, !.body = Append(@, chunk)]

\* http.Redirect to a target that is an absolute URL or a clean absolute
\* path: the Location header, the status, and a body linking the target.
HttpRedirect(w, target, code) ==
  With(target, LAMBDA location :
    WriteBody(WriteHeader([w EXCEPT !.header = HeaderSet(@, "Location", location)], code),
              location))

ErrorOccured == Str(<<"A","n"," ","e","r","r","o","r"," ","o","c","c","u","r","e","d">>)

\* http.Error
HttpError(w, text, code) == WriteBody(WriteHeader(w, code), text)

(***************************************************************************)
(* Errors and requests                                                     *)
(***************************************************************************)
\* A nil error.
NoError == [kind |-> "nil"]

\* An error made with errors.New or fmt.Errorf.
NewError(msg) == [kind |-> "error", msg |-> msg]

\* An *osincli.Error: an OAuth error reported by the provider.
OsinError(id, description, uri, state) ==
  [kind |-> "osin", id |-> id, description |-> description, uri |-> uri, state |-> state]

\* csrf.CSRF.Check: the value is accepted when it is not empty and equals the
\* token stored with the request.
CSRFCheck(req, value) == Len(value) > 0 /\ value = req.csrf

(***************************************************************************)
(* defaultState (pkg/oauth/external)                                       *)
(***************************************************************************)
\* Faulty tests on a decoded state: a state without a redirect is accepted.
CheckValuesWithoutRedirect(values, req) ==
  IF ~ CSRFCheck(req, ValuesGet(values, CsrfKey))
  THEN [ok |-> FALSE, err |-> NewError("state did not contain a valid CSRF token")]
  ELSE [ok |-> TRUE, err |-> NoError]

\* The tests of defaultState.Check on a decoded state: [ok, err]
CheckValues(values, req) ==
  IF ~ CSRFCheck(req, ValuesGet(values, CsrfKey))
  THEN [ok |-> FALSE, err |-> NewError("state did not contain a valid CSRF token")]
  ELSE IF Len(ValuesGet(values, ThenKey)) = 0
  THEN [ok |-> FALSE, err |-> NewError("state did not contain a redirect")]
  ELSE [ok |-> TRUE, err |-> NoError]

\* defaultState.Check: [ok, err]
Check(state, req) ==
  With(decodeState(state), LAMBDA d :
    IF ~ d.ok THEN [ok |-> FALSE, err |-> NewError("malformed state")]
    ELSE CheckValues(d.values, req))

\* defaultState.AuthenticationSucceeded: [handled, err, w]
AuthenticationSucceeded(state, w, req) ==
  With(decodeState(state), LAMBDA d :
  With(ValuesGet(d.values, ThenKey), LAMBDA then :
    IF ~ d.ok THEN [handled |-> FALSE, err |-> NewError("malformed state"), w |-> w]
    ELSE IF Len(then) = 0 THEN [handled |-> FALSE, err |-> NewError("no redirect given"), w |-> w]
    ELSE [handled |-> TRUE, err |-> NoError, w |-> HttpRedirect(w, then, 302)]))

ErrorKey == Str(<<"e","r","r","o","r">>)

ErrorDescriptionKey ==
  Str(<<"e","r","r","o","r","_","d","e","s","c","r","i","p","t","i","o","n">>)

ErrorURIKey == Str(<<"e","r","r","o","r","_","u","r","i">>)

\* A faulty query of the "then" redirect: error_description and error_uri
\* are set even when they are empty.
EchoQueryAlways(q, osinErr) ==
  ValuesSet(ValuesSet(ValuesSet(q, ErrorKey, osinErr.id),
                      ErrorDescriptionKey, osinErr.description),
            ErrorURIKey, osinErr.uri)

\* The query of the "then" redirect: error, and error_description and
\* error_uri when they are not empty, set over the query "then" came with.
EchoQuery(q, osinErr) ==
  With(ValuesSet(q, ErrorKey, osinErr.id), LAMBDA q1 :
  With(IF Len(osinErr.description) > 0
       THEN ValuesSet(q1, ErrorDescriptionKey, osinErr.description) ELSE q1, LAMBDA q2 :
    IF Len(osinErr.uri) > 0 THEN ValuesSet(q2, ErrorURIKey, osinErr.uri) ELSE q2))

\* The redirect of defaultState.AuthenticationError: thenURL with the error
\* parameters in its query.
EchoURL(thenURL, osinErr) ==
  With(ValuesEncode(EchoQuery(URLQuery(thenURL), osinErr)), LAMBDA rawQuery :
    URLString([thenURL EXCEPT !.rawQuery = rawQuery]))

\* The error variable after "values, err := decodeState(osinErr.State)": the
\* short declaration declares values and assigns the parameter err.
ErrAfterDecode(err, d) == IF d.ok THEN NoError ELSE NewError("malformed state")

\* defaultState.AuthenticationError: [handled, err, w]
AuthenticationError(err, w, req) ==
  IF err.kind # "osin" THEN [handled |-> FALSE, err |-> err, w |-> w]
  ELSE IF Len(err.id) = 0 THEN [handled |-> FALSE, err |-> err, w |-> w]
  ELSE With(Check(err.state, req), LAMBDA chk :
    IF ~ chk.ok \/ chk.err # NoError THEN [handled |-> FALSE, err |-> err, w |-> w]
    ELSE With(decodeState(err.state), LAMBDA d :
         With(ErrAfterDecode(err, d), LAMBDA err2 :
         With(ValuesGet(d.values, ThenKey), LAMBDA then :
         With(URLParse(then), LAMBDA p :
      IF ~ d.ok THEN [handled |-> FALSE, err |-> err2, w |-> w]
      ELSE IF Len(then) = 0 THEN [handled |-> FALSE, err |-> err2, w |-> w]
      ELSE IF ~ p.ok THEN [handled |-> FALSE, err |-> err2, w |-> w]
      ELSE [handled |-> TRUE, err |-> NoError,
            w |-> HttpRedirect(w, EchoURL(p.url, err), 302)])))))

(***************************************************************************)
(* Input domains                                                           *)
(***************************************************************************)
\* How many different CSRF tokens and how many well-formed "then" values the
\* requests and state tokens are drawn from.
MaxTokens == 2

MaxThens == 3

Tokens == << Str(<<"k","1">>), Str(<<"k","2">>), Str(<<"k","3">>), Str(<<"k","4">>) >>

TokenSet == {Tokens[i] : i \in 1..(IF MaxTokens < Len(Tokens) THEN MaxTokens ELSE Len(Tokens))}

\* "then" values that parse as a URL: a path, a path with a query that
\* already holds error parameters, an absolute URL, a path with a fragment.
GoodThens ==
  << Str(<<"/","a">>),
     Str(<<"/","a","?","x","=","1","&","e","r","r","o","r","=","o","l","d">>),
     Str(<<"h","t","t","p","s",":","/","/","e","x","a","m","p","l","e","/","a","p","p">>),
     Str(<<"/","b","?","z","=","%","4","1","#","f">>) >>

\* "then" values url.Parse rejects: a missing scheme, a bad escape.
BadThens == { Str(<<":">>), Str(<<"/","%","z","z">>) }

ThenSet ==
  {GoodThens[i] : i \in 1..(IF MaxThens < Len(GoodThens) THEN MaxThens ELSE Len(GoodThens))}
  \cup BadThens \cup { <<>> }

StateValues(csrf, then) ==
  [k \in {CsrfKey, ThenKey} |-> IF k = CsrfKey THEN << csrf >> ELSE << then >>]

\* State strings that do not come from encodeState: not base64, bad padding,
\* a bad escape in the form layer (alone, and beside a valid csrf and then),
\* a state without then, a state without csrf.
MalformedStates ==
  { Str(<<"!","!","!","!">>),
    Str(<<"Y","Q">>),
    Base64Encode(Str(<<"t","h","e","n","=","%","z","z">>)),
    Base64Encode(Str(<<"c","s","r","f","=","k","1","&","t","h","e","n","=","%","2","F","a","&","x","=","%","z">>)),
    Base64Encode(Str(<<"c","s","r","f","=","k","1">>)),
    Base64Encode(Str(<<"t","h","e","n","=","%","2","F","a">>)) }

\* The state strings a callback or a provider error may carry.
StateStrings ==
  {encodeState(StateValues(c, t)) : c \in TokenSet, t \in ThenSet}
  \cup MalformedStates \cup { <<>> }

AccessDenied == Str(<<"a","c","c","e","s","s","_","d","e","n","i","e","d">>)

InvalidGrant == Str(<<"i","n","v","a","l","i","d","_","g","r","a","n","t">>)

Descriptions == { <<>>, Str(<<"n","o"," ","w","a","y">>) }

URIs == { <<>>, Str(<<"/","e","?","q">>) }

\* The errors an error collaborator may be handed.
OsinErrors ==
  {OsinError(AccessDenied, d, u, st) : d \in Descriptions, u \in URIs, st \in StateStrings}
  \cup {OsinError(<<>>, <<>>, <<>>, st) : st \in StateStrings}

OtherErrors == { NewError("Requested parameter not sent"), NewError("transport") }

\* The CSRF token stored with a request; the empty one means none is stored.
RequestTokens == { <<>>, Tokens[1] }

(***************************************************************************)
(* The state of the model                                                  *)
(*                                                                         *)
(* One object is constructed (a callback Handler, a password Handler, a    *)
(* defaultState or a union handler) and serves one call at a time.         *)
(***************************************************************************)
VARIABLES
  handler,  \* the object constructed and its collaborators
  pc,       \* "idle": waiting for a call; "done": a call has returned
  op,       \* the operation of the last call
  arg,      \* the arguments of the last call besides the request
  req,      \* the request of the last call
  calls,    \* the collaborator calls of the last call, in order
  w,        \* the response writer of the last call
  ret       \* what the last call returned

vars == << handler, pc, op, arg, req, calls, w, ret >>

\* One entry of calls: the collaborator operation, what it was given, and
\* whether it said yes (ok or handled) and the error it returned.
CallEntry(fn, given, yes, err) == [fn |-> fn, given |-> given, yes |-> yes, err |-> err]

\* The progress of one call: the response and the calls made so far.
Begin == [w |-> FreshResponse, calls |-> <<>>]

Called(st, fn, given, yes, err) ==
  [st EXCEPT !.calls = Append(@, CallEntry(fn, given, yes, err))]

(***************************************************************************)
(* Collaborators of the callback Handler                                   *)
(***************************************************************************)
\* What a collaborator double writes when it handles a success or an error.
HomePage == Str(<<"/","h","o","m","e">>)

ErrorPage == Str(<<"e","r","r","o","r"," ","p","a","g","e">>)

\* h.state.Check(state, req): defaultState.Check, or any State answering anything
StateCheckResults(h, state, rq) ==
  IF h.state = "defaultState"
  THEN { Check(state, rq) }
  ELSE { [ok |-> TRUE, err |-> NoError], [ok |-> FALSE, err |-> NoError],
         [ok |-> FALSE, err |-> NewError("state rejected")],
         [ok |-> TRUE, err |-> NewError("state not verified")] }

\* h.errorHandler.AuthenticationError(err, w, req): [handled, err, w]
ErrorHandlerResults(h, err, rw, rq) ==
  IF h.errorHandler = "defaultState"
  THEN { AuthenticationError(err, rw, rq) }
  ELSE { [handled |-> TRUE, err |-> NoError, w |-> WriteBody(WriteHeader(rw, 400), ErrorPage)],
         [handled |-> FALSE, err |-> err, w |-> rw] }

\* h.success.AuthenticationSucceeded(user, state, w, req): [handled, err, w]
SuccessResults(h, state, rw, rq) ==
  IF h.success = "defaultState"
  THEN { AuthenticationSucceeded(state, rw, rq) }
  ELSE { [handled |-> TRUE, err |-> NoError, w |-> HttpRedirect(rw, HomePage, 302)],
         [handled |-> FALSE, err |-> NoError, w |-> rw],
         [handled |-> FALSE, err |-> NewError("success handler failed"), w |-> rw] }

\* accessReq.GetToken(): access data, an OAuth error of the provider, or a
\* transport error
TokenResults ==
  { [err |-> NoError],
    [err |-> OsinError(InvalidGrant, <<>>, <<>>, <<>>)],
    [err |-> OsinError(AccessDenied, <<>>, <<>>, <<>>)],
    [err |-> NewError("transport")] }

\* h.provider.GetUserIdentity(accessData): an identity, or an error that is an
\* AuthorizationDeniedError, an AuthorizationFailedError, or neither
IdentityResults ==
  { [err |-> NoError],
    [err |-> [kind |-> "denied", msg |-> "authorization denied"]],
    [err |-> [kind |-> "failed", msg |-> "authorization failed"]],
    [err |-> NewError("no identity")] }

\* h.mapper.UserFor(identity)
MapperResults == { [err |-> NoError], [err |-> NewError("mapping failed")] }

(***************************************************************************)
(* Handler (pkg/oauth/external): the callback                              *)
(***************************************************************************)
CodeKey == Str(<<"c","o","d","e">>)

StateKey == Str(<<"s","t","a","t","e">>)

\* authReq.HandleRequest(req) of osincli: a provider error in the form, else
\* the code and the state; a callback without a code is an error.
HandleRequest(rq) ==
  With(ParseQuery(rq.rawQuery).values, LAMBDA form :
    IF ValuesGet(form, ErrorKey) # <<>>
    THEN [err |-> OsinError(ValuesGet(form, ErrorKey), ValuesGet(form, ErrorDescriptionKey),
                            ValuesGet(form, ErrorURIKey), ValuesGet(form, StateKey)),
          state |-> <<>>]
    ELSE IF ValuesGet(form, CodeKey) = <<>>
    THEN [err |-> NewError("Requested parameter not sent"), state |-> <<>>]
    ELSE [err |-> NoError, state |-> ValuesGet(form, StateKey)])

\* A faulty handleError: the generic 500 is written whatever the error
\* collaborator answered.
handleErrorAlways(err, st, r) ==
  [Called([st EXCEPT !.w = r.w], "errorHandler.AuthenticationError", err, r.handled, r.err)
     EXCEPT !.w = HttpError(@, ErrorOccured, 500)]

\* Handler.handleError, given what the error collaborator answered
handleError(err, st, r) ==
  With(Called([st EXCEPT !.w = r.w], "errorHandler.AuthenticationError", err, r.handled, r.err),
       LAMBDA st1 :
    IF r.handled THEN st1
    ELSE [st1 EXCEPT !.w = HttpError(st1.w, ErrorOccured, 500)])

\* A faulty test on what state.Check returned: only the error is looked at,
\* a false answer without an error passes.
StateErrorIgnoringAnswer(c) == c.err

\* The test of ServeHTTP on what state.Check returned: an error first, then
\* a false answer, which becomes the error "State is invalid".
StateError(c) ==
  IF c.err # NoError THEN c.err
  ELSE IF ~ c.ok THEN NewError("State is invalid")
  ELSE NoError

\* Faulty audit annotations: every failure of identity resolution is
\* annotated as an error without a user name.
IdentityFailureAuditUniform(st, err) ==
  Called(st, "audit.AddDecisionAnnotation", "error", TRUE, NoError)

\* The audit annotations login makes when identity resolution fails.
IdentityFailureAudit(st, err) ==
  IF err.kind = "denied"
  THEN Called(Called(st, "audit.AddUsernameAnnotation", "identity", TRUE, NoError),
              "audit.AddDecisionAnnotation", "deny", TRUE, NoError)
  ELSE IF err.kind = "failed"
  THEN Called(Called(st, "audit.AddUsernameAnnotation", "identity", TRUE, NoError),
              "audit.AddDecisionAnnotation", "error", TRUE, NoError)
  ELSE Called(st, "audit.AddDecisionAnnotation", "error", TRUE, NoError)

\* The audit annotations login makes once the identity is mapped to a user.
AllowAudit(st) ==
  Called(Called(st, "audit.AddUsernameAnnotation", "user", TRUE, NoError),
         "audit.AddDecisionAnnotation", "allow", TRUE, NoError)

\* The call returns: the outcome becomes the state of the model.
Return(name, given, rq, st, result) ==
  /\ pc' = "done"
  /\ op' = name
  /\ arg' = given
  /\ req' = rq
  /\ calls' = st.calls
  /\ w' = st.w
  /\ ret' = result
  /\ UNCHANGED handler

NoResult == [none |-> TRUE]

\* The error path of the callback: handleError, then ServeHTTP returns.
Fail(err, st, rq) ==
  \E r \in ErrorHandlerResults(handler, err, st.w, rq) :
  \E st1 \in { handleError(err, st, r) } :
     Return("ServeHTTP", NoResult, rq, st1, NoResult)

\* Handler.login
Login(st, rq, state) ==
  \E idn \in IdentityResults :
  \E st1 \in { Called(st, "provider.GetUserIdentity", "accessData", idn.err = NoError, idn.err) } :
    IF idn.err # NoError
    THEN \E st2 \in { IdentityFailureAudit(st1, idn.err) } : Fail(idn.err, st2, rq)
    ELSE \E m \in MapperResults :
         \E st2 \in { Called(st1, "mapper.UserFor", "identity", m.err = NoError, m.err) } :
      IF m.err # NoError
      THEN \E st3 \in { Called(st2, "audit.AddDecisionAnnotation", "error", TRUE, NoError) } :
             Fail(m.err, st3, rq)
      ELSE \E st3 \in { AllowAudit(st2) } :
           \E s \in SuccessResults(handler, state, st3.w, rq) :
           \E st4 \in { Called([st3 EXCEPT !.w = s.w], "success.AuthenticationSucceeded",
                               state, s.handled, s.err) } :
             IF s.err # NoError
             THEN Fail(s.err, st4, rq)
             ELSE Return("ServeHTTP", NoResult, rq, st4, NoResult)

\* A request: the CSRF token stored with it, the path and the query of its
\* URL, the scheme of its Authorization header ("none", "basic", "bearer"),
\* whether it came with a client certificate, and whether its context holds
\* an audit event.
HttpRequest(csrf, path, rawQuery, authorization, clientCert, audited) ==
  [csrf |-> csrf, path |-> path, rawQuery |-> rawQuery,
   authorization |-> authorization, clientCert |-> clientCert, audited |-> audited]

CallbackPath == Str(<<"/","c","a","l","l","b","a","c","k">>)

\* A callback request: the CSRF token stored with it and its query.
Request(csrf, rawQuery) == HttpRequest(csrf, CallbackPath, rawQuery, "none", FALSE, FALSE)

NoRequest == Request(<<>>, <<>>)

\* The form of a callback that carries a code.
CodeForm(state) == ValuesSet(ValuesSet(EmptyValues, CodeKey, Str(<<"c","0">>)), StateKey, state)

\* The form of a callback that carries a provider error.
ErrorForm(e) ==
  With(ValuesSet(ValuesSet(EmptyValues, ErrorKey, e.id), StateKey, e.state), LAMBDA f1 :
  With(IF e.description # <<>> THEN ValuesSet(f1, ErrorDescriptionKey, e.description) ELSE f1,
       LAMBDA f2 :
    IF e.uri # <<>> THEN ValuesSet(f2, ErrorURIKey, e.uri) ELSE f2))

\* The queries of the callbacks: with a code, with a provider error, with
\* neither.
CallbackQueries ==
  {ValuesEncode(CodeForm(st)) : st \in StateStrings}
  \cup {ValuesEncode(ErrorForm(e)) : e \in {x \in OsinErrors : x.id # <<>>}}
  \cup {ValuesEncode(ValuesSet(EmptyValues, StateKey, <<>>))}

CallbackRequests == {Request(c, q) : c \in RequestTokens, q \in CallbackQueries}

\* A faulty ServeHTTP: the code is exchanged for a token before the state
\* is validated.
ExchangeFirst(st0, rq, state) ==
  \E t \in TokenResults :
  \E st1 \in { Called(st0, "accessReq.GetToken", "authData", t.err = NoError, t.err) } :
    IF t.err # NoError
    THEN Fail(t.err, st1, rq)
    ELSE \E c \in StateCheckResults(handler, state, rq) :
         \E st2 \in { Called(st1, "state.Check", state, c.ok, c.err) } :
         \E serr \in { StateError(c) } :
      IF serr # NoError
      THEN Fail(serr, st2, rq)
      ELSE Login(st2, rq, state)

\* ServeHTTP once the code is extracted: the state is validated, then the
\* code is exchanged for a token, then login.
Exchange(st0, rq, state) ==
  \E c \in StateCheckResults(handler, state, rq) :
  \E st1 \in { Called(st0, "state.Check", state, c.ok, c.err) } :
  \E serr \in { StateError(c) } :
    IF serr # NoError
    THEN Fail(serr, st1, rq)
    ELSE \E t \in TokenResults :
         \E st2 \in { Called(st1, "accessReq.GetToken", "authData", t.err = NoError, t.err) } :
      IF t.err # NoError
      THEN Fail(t.err, st2, rq)
      ELSE Login(st2, rq, state)

\* A faulty ServeHTTP: the error of authReq.HandleRequest is reported, and
\* the callback goes on as if there were none.
CallbackGoingOn(a, st0, rq) ==
  IF a.err # NoError
  THEN \E r \in ErrorHandlerResults(handler, a.err, st0.w, rq) :
         Exchange(handleError(a.err, st0, r), rq, a.state)
  ELSE Exchange(st0, rq, a.state)

\* ServeHTTP once authReq.HandleRequest answered
Callback(a, st0, rq) ==
  IF a.err # NoError
  THEN Fail(a.err, st0, rq)
  ELSE Exchange(st0, rq, a.state)

\* Handler.ServeHTTP
ServeHTTP ==
  /\ pc = "idle"
  /\ handler.type = "external"
  /\ \E rq \in CallbackRequests :
     \E a \in { HandleRequest(rq) } :
       Callback(a, Called(Begin, "authReq.HandleRequest", "req", a.err = NoError, a.err), rq)

(***************************************************************************)
(* Handler (pkg/oauth/external): the password grant                        *)
(***************************************************************************)
\* A faulty error for a failed token exchange: invalid_grant is returned as
\* any other error is.
PasswordTokenErrorUnfiltered(err) == err

\* The error AuthenticatePassword returns for a failed token exchange: none
\* when the provider answered invalid_grant.
PasswordTokenError(err) ==
  IF err.kind = "osin" /\ err.id = InvalidGrant THEN NoError ELSE err

\* What AuthenticatePassword returns
PasswordResult(response, ok, err) == [response |-> response, ok |-> ok, err |-> err]

\* identitymapper.ResponseFor(mapper, identity), given what mapper.UserFor
\* answered
ResponseFor(m) ==
  IF m.err # NoError THEN PasswordResult("nil", FALSE, m.err)
  ELSE PasswordResult("user", TRUE, NoError)

\* Handler.AuthenticatePassword
AuthenticatePassword ==
  /\ pc = "idle"
  /\ handler.type = "password"
  /\ \E t \in TokenResults :
     \E st1 \in { Called(Begin, "accessReq.GetToken", "password", t.err = NoError, t.err) } :
       IF t.err # NoError
       THEN Return("AuthenticatePassword", NoResult, NoRequest, st1,
                   PasswordResult("nil", FALSE, PasswordTokenError(t.err)))
       ELSE \E idn \in IdentityResults :
            \E st2 \in { Called(st1, "provider.GetUserIdentity", "accessData",
                                idn.err = NoError, idn.err) } :
         IF idn.err # NoError
         THEN Return("AuthenticatePassword", NoResult, NoRequest, st2,
                     PasswordResult("nil", FALSE, idn.err))
         ELSE \E m \in MapperResults :
           Return("AuthenticatePassword", NoResult, NoRequest,
                  Called(st2, "mapper.UserFor", "identity", m.err = NoError, m.err),
                  ResponseFor(m))

(***************************************************************************)
(* defaultState called directly                                            *)
(***************************************************************************)
StateRequests == {Request(c, <<>>) : c \in RequestTokens}

\* A call of defaultState.Check
CheckCall ==
  /\ pc = "idle"
  /\ handler.type = "defaultState"
  /\ \E state \in StateStrings, rq \in StateRequests :
       Return("Check", state, rq, Begin, Check(state, rq))

\* A call of defaultState.AuthenticationError
AuthenticationErrorCall ==
  /\ pc = "idle"
  /\ handler.type = "defaultState"
  /\ \E err \in OsinErrors \cup OtherErrors, rq \in StateRequests :
     \E r \in { AuthenticationError(err, FreshResponse, rq) } :
       Return("AuthenticationError", err, rq, [Begin EXCEPT !.w = r.w],
              [handled |-> r.handled, err |-> r.err])

(***************************************************************************)
(* unionAuthenticationHandler (pkg/oauth/handlers)                         *)
(***************************************************************************)
\* kerrors.NewAggregate: nil for no errors, else one error holding them all
NewAggregate(errors) ==
  IF errors = <<>> THEN NoError ELSE [kind |-> "aggregate", errors |-> errors]

\* mergeHeaders: every value of toAdd is added to dest, under its key
mergeHeaders(dest, toAdd) ==
  [k \in DOMAIN dest \cup {x \in DOMAIN toAdd : toAdd[x] # <<>>} |->
     HeaderValues(dest, k) \o HeaderValues(toAdd, k)]

RECURSIVE ValuesInOrder(_, _)
\* The values the maps of a list hold for a key, in the order of the list
ValuesInOrder(maps, k) ==
  IF maps = <<>> THEN <<>>
  ELSE With(ValuesInOrder(Tail(maps), k), LAMBDA rest : HeaderValues(Head(maps), k) \o rest)

\* The headers of the challengers that answered without error, merged in
\* the order the challengers were asked.
MergedChallenges(results) ==
  With(SelectSeq(results, LAMBDA r : r.err = NoError), LAMBDA good :
    [k \in UNION {{x \in DOMAIN good[i].headers : good[i].headers[x] # <<>>} : i \in 1..Len(good)} |->
       ValuesInOrder([i \in 1..Len(good) |-> good[i].headers], k)])

\* Faulty errors of the challengers: only the last one is kept.
ChallengeErrorsLast(results) ==
  With(SelectSeq(results, LAMBDA r : r.err # NoError), LAMBDA bad :
    IF bad = <<>> THEN <<>> ELSE << bad[Len(bad)].err >>)

\* The errors of the challengers that failed, in the order they were asked.
ChallengeErrors(results) ==
  With(SelectSeq(results, LAMBDA r : r.err # NoError), LAMBDA bad :
    [i \in 1..Len(bad) |-> bad[i].err])

\* A faulty switch on the merged response headers: a Location wins over a
\* WWW-Authenticate.
ChallengeDecisionRedirectFirst(redirectHeader, redirectHeaders, challengeHeader) ==
  IF Len(redirectHeaders) > 1 THEN "multiple"
  ELSE IF Len(redirectHeader) > 0 THEN "redirect"
  ELSE "challenge"

\* The switch on the merged response headers: "conflict" when a Location and
\* a WWW-Authenticate are both set, "multiple" for more than one Location,
\* "redirect" for one Location, else "challenge".
ChallengeDecision(redirectHeader, redirectHeaders, challengeHeader) ==
  IF Len(redirectHeader) > 0 /\ Len(challengeHeader) > 0 THEN "conflict"
  ELSE IF Len(redirectHeaders) > 1 THEN "multiple"
  ELSE IF Len(redirectHeader) > 0 THEN "redirect"
  ELSE "challenge"

WarningHeaderMiscCode == Str(<<"1","9","9">>)

\* warningRegex.FindStringSubmatch: three digits, a space, an agent without
\* spaces, a space, a quoted text, and maybe a space and a quoted date.  The
\* text ends at the first quote no backslash precedes.  [match, code, text]
WarningParts(v) ==
  With({i \in 5..Len(v) : v[i] = Ord[" "]}, LAMBDA spaces :
    IF ~ (/\ Len(v) >= 4 /\ IsDigit(v[1]) /\ IsDigit(v[2]) /\ IsDigit(v[3]) /\ v[4] = Ord[" "]
          /\ spaces # {})
    THEN [match |-> FALSE]
    ELSE With(Min(spaces), LAMBDA sp :
         With({j \in (sp + 2)..Len(v) : v[j] = Ord["\""] /\ v[j-1] # Ord["\\"]}, LAMBDA quotes :
      IF ~ (sp > 5 /\ sp < Len(v) /\ v[sp + 1] = Ord["\""] /\ quotes # {})
      THEN [match |-> FALSE]
      ELSE With(Min(quotes), LAMBDA close :
        IF \/ close = Len(v)
           \/ /\ Len(v) >= close + 4
              /\ v[close + 1] = Ord[" "] /\ v[close + 2] = Ord["\""] /\ v[Len(v)] = Ord["\""]
              /\ \A j \in (close + 3)..(Len(v) - 1) : v[j] # Ord["\""]
        THEN [match |-> TRUE, code |-> SubSeq(v, 1, 3), text |-> SubSeq(v, sp + 2, close - 1)]
        ELSE [match |-> FALSE]))))

\* The texts of the miscellaneous warnings among the Warning headers, each
\* printed to the body as a line.
WarningLines(warnings) ==
  With([i \in 1..Len(warnings) |-> WarningParts(warnings[i])], LAMBDA parts :
  With(SelectSeq(parts, LAMBDA p : p.match /\ p.code = WarningHeaderMiscCode), LAMBDA misc :
    [i \in 1..Len(misc) |-> misc[i].text \o << 10 >>]))

AccessTokenKey == Str(<<"a","c","c","e","s","s","_","t","o","k","e","n">>)

\* strings.TrimSpace, for the spaces among the printable characters
TrimSpace(str) ==
  With({i \in 1..Len(str) : str[i] # Ord[" "]}, LAMBDA solid :
    IF solid = {} THEN <<>>
    ELSE SubSeq(str, Min(solid), CHOOSE i \in solid : \A j \in solid : j <= i))

\* getAuthMethods: the credentials the request came with, in the order basic,
\* bearer, access_token, x509.  The message says "no credentials provided"
\* for none.
getAuthMethods(rq) ==
  (IF rq.authorization = "basic" THEN << "basic" >> ELSE <<>>)
  \o (IF rq.authorization = "bearer" THEN << "bearer" >> ELSE <<>>)
  \o (IF Len(TrimSpace(ValuesGet(ParseQuery(rq.rawQuery).values, AccessTokenKey))) > 0
      THEN << "access_token" >> ELSE <<>>)
  \o (IF rq.clientCert THEN << "x509" >> ELSE <<>>)

\* A faulty status: the challenge branch answers 401 to a redirect as well.
WriteChallengeStatusUnauthorized(st, rq, decision) ==
  [st EXCEPT !.w = WriteHeader(@, 401)]

\* The status the challenge branch writes, and for a 401 the message of the
\* audit event, when the request has one.
WriteChallengeStatus(st, rq, decision) ==
  IF decision = "redirect"
  THEN [st EXCEPT !.w = WriteHeader(@, 302)]
  ELSE With([st EXCEPT !.w = WriteHeader(@, 401)], LAMBDA st1 :
         IF rq.audited
         THEN Called(st1, "audit.ResponseStatus.Message", getAuthMethods(rq), TRUE, NoError)
         ELSE st1)

RECURSIVE WriteLines(_, _)
\* fmt.Fprintln(w, line) for every line
WriteLines(rw, lines) ==
  IF lines = <<>> THEN rw
  ELSE With(WriteBody(rw, Head(lines)), LAMBDA rw1 : WriteLines(rw1, Tail(lines)))

\* What AuthenticationNeeded returns
Outcome(handled, err) == [handled |-> handled, err |-> err]

\* The challenge branch once every challenger was asked: [st, ret]
ChallengeBranch(st, rq, results) ==
  With(ChallengeErrors(results), LAMBDA errors :
  With(MergedChallenges(results), LAMBDA headers :
    IF DOMAIN headers = {}
    THEN [st |-> st, ret |-> Outcome(FALSE, NewAggregate(errors))]
    ELSE With([st EXCEPT !.w.header = mergeHeaders(@, headers)], LAMBDA st1 :
         With(ChallengeDecision(HeaderGet(st1.w.header, "Location"),
                                HeaderValues(st1.w.header, "Location"),
                                HeaderGet(st1.w.header, "WWW-Authenticate")), LAMBDA decision :
      IF decision = "conflict"
      THEN [st |-> st1,
            ret |-> Outcome(FALSE, NewAggregate(Append(errors,
                      NewError("redirect header and challenge header cannot both be set"))))]
      ELSE IF decision = "multiple"
      THEN [st |-> st1,
            ret |-> Outcome(FALSE, NewAggregate(Append(errors,
                      NewError("cannot set multiple redirect headers"))))]
      ELSE With(WriteChallengeStatus(st1, rq, decision), LAMBDA st2 :
             [st |-> [st2 EXCEPT !.w = WriteLines(@, WarningLines(HeaderValues(st2.w.header, "Warning")))],
              ret |-> Outcome(TRUE, NoError)])))))

\* The calls of AuthenticationChallenge, in the order of the iteration.
RECURSIVE AskChallengers(_, _)
AskChallengers(st, results) ==
  IF results = <<>> THEN st
  ELSE With(Called(st, "challenger.AuthenticationChallenge",
                   [name |-> Head(results).name, headers |-> Head(results).headers],
                   Head(results).err = NoError, Head(results).err), LAMBDA st1 :
         AskChallengers(st1, Tail(results)))

(***************************************************************************)
(* Collaborators of the union handler                                      *)
(***************************************************************************)
BasicChallenge == Str(<<"B","a","s","i","c">>)

LoginURL == Str(<<"/","l","o","g","i","n">>)

TokenWarning == Str(<<"1","9","9"," ","O","r","i","g","i","n"," ","\"","u","s","e"," ","a"," ","t","o","k","e","n","\"">>)

StaleWarning == Str(<<"2","9","9"," ","O","r","i","g","i","n"," ","\"","s","t","a","l","e","\"">>)

BrokenWarning == Str(<<"1","9","9"," ","b","r","o","k","e","n">>)

Header1(k, v) == [x \in {k} |-> v]

\* What a challenger may answer: an error, or headers: a challenge (with
\* warnings), a redirect, only a warning, a challenge and a redirect, none.
\* The values of the headers are never empty.
ChallengeAnswers ==
  { [err |-> NewError("challenge failed"), headers |-> EmptyHeader],
    [err |-> NoError,
     headers |-> mergeHeaders(Header1("WWW-Authenticate", << BasicChallenge >>),
                              Header1("Warning", << StaleWarning, TokenWarning, BrokenWarning >>))],
    [err |-> NoError, headers |-> Header1("Location", << LoginURL >>)],
    [err |-> NoError, headers |-> Header1("Warning", << TokenWarning >>)],
    [err |-> NoError,
     headers |-> mergeHeaders(Header1("WWW-Authenticate", << BasicChallenge >>),
                              Header1("Location", << LoginURL >>))],
    [err |-> NoError, headers |-> EmptyHeader] }

\* The orders a set of names can be iterated in (a Go map has no order).
Orders(names) ==
  {o \in [1..Cardinality(names) -> names] : \A i, j \in DOMAIN o : i # j => o[i] # o[j]}

\* The redirector registry (AuthenticationRedirectors): Get, GetNames, Count
RedirectorsGet(redirectors, name) == \E i \in 1..Len(redirectors) : redirectors[i] = name

RedirectorsGetNames(redirectors) == redirectors

RedirectorsCount(redirectors) == Len(redirectors)

AuthorizePath == Str(<<"/","a","u","t","h","o","r","i","z","e","/">>)

\* redirectHandler.AuthenticationRedirect(w, req): a redirect to the
\* provider is written, or an error is returned and nothing is written
RedirectResults(name, rw) ==
  { [err |-> NoError, w |-> HttpRedirect(rw, AuthorizePath \o name, 302)],
    [err |-> NewError("redirect failed"), w |-> rw] }

\* authHandler.errorHandler.AuthenticationError(err, w, req)
UnionErrorResults(err, rw) ==
  { [handled |-> TRUE, err |-> NoError, w |-> WriteBody(WriteHeader(rw, 400), ErrorPage)],
    [handled |-> FALSE, err |-> err, w |-> rw],
    [handled |-> FALSE, err |-> NewError("error page failed"), w |-> rw] }

Unregistered == Str(<<"n","o","b","o","d","y">>)

ChooserPage == Str(<<"c","h","o","o","s","e">>)

\* authHandler.selectionHandler.SelectAuthentication(providers, w, req): an
\* error, a response of its own, a provider of the list or another one, a
\* provider of the list together with a response of its own, or no choice
SelectionResults(providers, rw) ==
  { [selected |-> <<>>, handled |-> FALSE, err |-> NewError("selection failed"), w |-> rw],
    [selected |-> <<>>, handled |-> TRUE, err |-> NoError, w |-> WriteBody(rw, ChooserPage)],
    [selected |-> <<>>, handled |-> FALSE, err |-> NoError, w |-> rw],
    [selected |-> Unregistered, handled |-> FALSE, err |-> NoError, w |-> rw] }
  \cup {[selected |-> providers[i].name, handled |-> h, err |-> NoError,
         w |-> IF h THEN WriteBody(rw, ChooserPage) ELSE rw] :
          i \in 1..Len(providers), h \in BOOLEAN}

IdpKey == Str(<<"i","d","p">>)

\* The URL of the request (req.URL)
RequestURL(rq) == [NoURL EXCEPT !.path = rq.path, !.rawQuery = rq.rawQuery]

\* A faulty provider list: idp is appended to the query of the request, so
\* an idp the request already has stays in front of it.
ProviderInfosAppending(redirectors, rq) ==
  [i \in 1..Len(RedirectorsGetNames(redirectors)) |->
     With(RedirectorsGetNames(redirectors)[i], LAMBDA name :
       [name |-> name,
        url  |-> URLString([RequestURL(rq) EXCEPT
                   !.rawQuery = (IF @ = <<>> THEN <<>> ELSE @ \o << Ord["&"] >>)
                                \o IdpKey \o << Ord["="] >> \o QueryEscape(name)])])]

\* The provider list for the selection handler: for every name of the
\* registry, the request URL with idp set to the name.
ProviderInfos(redirectors, rq) ==
  With(URLQuery(RequestURL(rq)), LAMBDA q :
    [i \in 1..Len(RedirectorsGetNames(redirectors)) |->
       With(RedirectorsGetNames(redirectors)[i], LAMBDA name :
         [name |-> name,
          url  |-> URLString([RequestURL(rq) EXCEPT
                                !.rawQuery = ValuesEncode(ValuesSet(q, IdpKey, name))])])])

(***************************************************************************)
(* unionAuthenticationHandler.AuthenticationNeeded                          *)
(***************************************************************************)
UnionReturn(rq, client, st, result) ==
  Return("AuthenticationNeeded", client, rq, st, result)

\* A faulty redirect: the error of AuthenticationRedirect is returned as it
\* is, the error handler is not asked.
RedirectReturningError(name, st, rq, client) ==
  \E r \in RedirectResults(name, st.w) :
    UnionReturn(rq, client,
                Called([st EXCEPT !.w = r.w], "redirector.AuthenticationRedirect",
                       name, r.err = NoError, r.err),
                Outcome(r.err = NoError, r.err))

\* redirectHandler.AuthenticationRedirect and what follows it
Redirect(name, st, rq, client) ==
  \E r \in RedirectResults(name, st.w) :
  \E st1 \in { Called([st EXCEPT !.w = r.w], "redirector.AuthenticationRedirect",
                      name, r.err = NoError, r.err) } :
    IF r.err # NoError
    THEN \E e \in UnionErrorResults(r.err, st1.w) :
           UnionReturn(rq, client,
                       Called([st1 EXCEPT !.w = e.w], "errorHandler.AuthenticationError",
                              r.err, e.handled, e.err),
                       Outcome(e.handled, e.err))
    ELSE UnionReturn(rq, client, st1, Outcome(TRUE, NoError))

\* A faulty last branch: the first redirector is selected whenever there is
\* one.
AutoSelectFirst(st, rq, client) ==
  IF RedirectorsCount(handler.redirectors) >= 1
  THEN Redirect(RedirectorsGetNames(handler.redirectors)[1], st, rq, client)
  ELSE UnionReturn(rq, client, st, Outcome(FALSE, NoError))

\* A faulty last branch: an empty registry is reported as an error.
AutoSelectStrict(st, rq, client) ==
  IF RedirectorsCount(handler.redirectors) = 1
  THEN Redirect(RedirectorsGetNames(handler.redirectors)[1], st, rq, client)
  ELSE IF RedirectorsCount(handler.redirectors) > 1
  THEN UnionReturn(rq, client, st,
                   Outcome(FALSE, NewError("Too many potential redirect handlers")))
  ELSE UnionReturn(rq, client, st, Outcome(FALSE, NewError("No valid redirectors")))

\* A faulty last branch: the error of more than one redirector is handed to
\* the error handler, as the error of a redirector is.
AutoSelectAsking(st, rq, client) ==
  IF RedirectorsCount(handler.redirectors) = 1
  THEN Redirect(RedirectorsGetNames(handler.redirectors)[1], st, rq, client)
  ELSE IF RedirectorsCount(handler.redirectors) > 1
  THEN \E e \in UnionErrorResults(NewError("Too many potential redirect handlers"), st.w) :
         UnionReturn(rq, client,
                     Called([st EXCEPT !.w = e.w], "errorHandler.AuthenticationError",
                            NewError("Too many potential redirect handlers"), e.handled, e.err),
                     Outcome(e.handled, e.err))
  ELSE UnionReturn(rq, client, st, Outcome(FALSE, NoError))

\* The last branch: one redirector is selected, more than one is an error
AutoSelect(st, rq, client) ==
  IF RedirectorsCount(handler.redirectors) = 1
  THEN IF ~ RedirectorsGet(handler.redirectors, RedirectorsGetNames(handler.redirectors)[1])
       THEN \E e \in UnionErrorResults(NewError("No valid redirectors"), st.w) :
              UnionReturn(rq, client,
                          Called([st EXCEPT !.w = e.w], "errorHandler.AuthenticationError",
                                 NewError("No valid redirectors"), e.handled, e.err),
                          Outcome(e.handled, e.err))
       ELSE Redirect(RedirectorsGetNames(handler.redirectors)[1], st, rq, client)
  ELSE IF RedirectorsCount(handler.redirectors) > 1
  THEN UnionReturn(rq, client, st,
                   Outcome(FALSE, NewError("Too many potential redirect handlers")))
  ELSE UnionReturn(rq, client, st, Outcome(FALSE, NoError))

\* A faulty selection: a provider the selection handler chose is used even
\* when the handler reports that it answered for itself.
SelectChoiceFirst(st, rq, client) ==
  \E providers \in { ProviderInfos(handler.redirectors, rq) } :
  \E sel \in SelectionResults(providers, st.w) :
  \E st1 \in { Called([st EXCEPT !.w = sel.w], "selectionHandler.SelectAuthentication",
                      [providers |-> providers, selected |-> sel.selected],
                      sel.handled, sel.err) } :
    IF sel.err # NoError
    THEN \E e \in UnionErrorResults(sel.err, st1.w) :
           UnionReturn(rq, client,
                       Called([st1 EXCEPT !.w = e.w], "errorHandler.AuthenticationError",
                              sel.err, e.handled, e.err),
                       Outcome(e.handled, e.err))
    ELSE IF sel.selected # <<>>
    THEN IF ~ RedirectorsGet(handler.redirectors, sel.selected)
         THEN UnionReturn(rq, client, st1,
                          Outcome(FALSE, NewError("Unable to locate redirect handler")))
         ELSE Redirect(sel.selected, st1, rq, client)
    ELSE IF sel.handled
    THEN UnionReturn(rq, client, st1, Outcome(TRUE, NoError))
    ELSE AutoSelect(st1, rq, client)

\* The selection handler is asked
Select(st, rq, client) ==
  \E providers \in { ProviderInfos(handler.redirectors, rq) } :
  \E sel \in SelectionResults(providers, st.w) :
  \E st1 \in { Called([st EXCEPT !.w = sel.w], "selectionHandler.SelectAuthentication",
                      [providers |-> providers, selected |-> sel.selected],
                      sel.handled, sel.err) } :
    IF sel.err # NoError
    THEN \E e \in UnionErrorResults(sel.err, st1.w) :
           UnionReturn(rq, client,
                       Called([st1 EXCEPT !.w = e.w], "errorHandler.AuthenticationError",
                              sel.err, e.handled, e.err),
                       Outcome(e.handled, e.err))
    ELSE IF sel.handled
    THEN UnionReturn(rq, client, st1, Outcome(TRUE, NoError))
    ELSE IF sel.selected # <<>>
    THEN IF ~ RedirectorsGet(handler.redirectors, sel.selected)
         THEN UnionReturn(rq, client, st1,
                          Outcome(FALSE, NewError("Unable to locate redirect handler")))
         ELSE Redirect(sel.selected, st1, rq, client)
    ELSE AutoSelect(st1, rq, client)

\* Faulty branches: the selection handler is asked before the idp of the
\* request is looked at.
RedirectBranchesSelectionFirst(rq, client) ==
  IF handler.selectionHandler
  THEN Select(Begin, rq, client)
  ELSE \E redirectHandlerName \in { ValuesGet(URLQuery(RequestURL(rq)), IdpKey) } :
    IF Len(redirectHandlerName) > 0
    THEN IF ~ RedirectorsGet(handler.redirectors, redirectHandlerName)
         THEN UnionReturn(rq, client, Begin,
                          Outcome(FALSE, NewError("Unable to locate redirect handler")))
         ELSE Redirect(redirectHandlerName, Begin, rq, client)
    ELSE AutoSelect(Begin, rq, client)

\* The branches for a client that does not respond with challenges
RedirectBranches(rq, client) ==
  \E redirectHandlerName \in { ValuesGet(URLQuery(RequestURL(rq)), IdpKey) } :
    IF Len(redirectHandlerName) > 0
    THEN IF ~ RedirectorsGet(handler.redirectors, redirectHandlerName)
         THEN UnionReturn(rq, client, Begin,
                          Outcome(FALSE, NewError("Unable to locate redirect handler")))
         ELSE Redirect(redirectHandlerName, Begin, rq, client)
    ELSE IF handler.selectionHandler
    THEN Select(Begin, rq, client)
    ELSE AutoSelect(Begin, rq, client)

\* The branch for a client that responds with challenges
Challenges(rq, client) ==
  \E order \in Orders(handler.challengers) :
  \E answers \in [handler.challengers -> ChallengeAnswers] :
  \E results \in { [i \in DOMAIN order |->
                      [name |-> order[i], err |-> answers[order[i]].err,
                       headers |-> answers[order[i]].headers]] } :
  \E out \in { ChallengeBranch(AskChallengers(Begin, results), rq, results) } :
    UnionReturn(rq, client, out.st, out.ret)

\* The clients: user data that is no OAuthClient, and an OAuthClient that
\* responds with challenges or not.
Clients ==
  { [isOAuthClient |-> FALSE, respondWithChallenges |-> FALSE],
    [isOAuthClient |-> TRUE, respondWithChallenges |-> TRUE],
    [isOAuthClient |-> TRUE, respondWithChallenges |-> FALSE] }

AuthorizeRequestPath == Str(<<"/","o","a","u","t","h">>)

GitHub == Str(<<"g","i","t","h","u","b">>)

GitLab == Str(<<"g","i","t","l","a","b">>)

Bitbucket == Str(<<"b","i","t","b","u","c","k","e","t">>)

\* The queries of the requests that need authentication: none, an idp that
\* may be registered or not, an empty idp, an idp among other parameters,
\* an access token, a parameter with a bad escape before one with two values.
UnionQueries ==
  { <<>>,
    IdpKey \o << Ord["="] >> \o GitHub,
    IdpKey \o << Ord["="] >> \o Unregistered,
    IdpKey \o << Ord["="] >>,
    Str(<<"z","=","1","&">>) \o IdpKey \o << Ord["="] >> \o GitLab \o Str(<<"&","a","=","b"," ","c">>),
    AccessTokenKey \o Str(<<"=","t","0">>),
    Str(<<"x","=","%","z","z","&","a","=","2","&","a","=","1">>) }

UnionRequests ==
  {HttpRequest(<<>>, AuthorizeRequestPath, q, "none", FALSE, FALSE) : q \in UnionQueries}
  \cup {HttpRequest(<<>>, AuthorizeRequestPath, q, a, a = "bearer", TRUE) :
          q \in {<<>>, AccessTokenKey \o Str(<<"=","t","0">>)}, a \in {"none", "basic", "bearer"}}

\* unionAuthenticationHandler.AuthenticationNeeded
AuthenticationNeeded ==
  /\ pc = "idle"
  /\ handler.type = "union"
  /\ \E rq \in UnionRequests, client \in Clients :
       IF ~ client.isOAuthClient
       THEN UnionReturn(rq, client, Begin,
                        Outcome(FALSE, NewError("apiClient data was not an oauthapi.OAuthClient")))
       ELSE IF client.respondWithChallenges
       THEN Challenges(rq, client)
       ELSE RedirectBranches(rq, client)

(***************************************************************************)
(* defaultState.Generate and the state codec                               *)
(***************************************************************************)
\* defaultState.Generate, given the nonce d.csrf.Generate(w, req) answered:
\* [state, err]
Generate(nonce, rq) ==
  With(URLString(RequestURL(rq)), LAMBDA then :
    IF Len(then) = 0
    THEN [state |-> <<>>, err |-> NewError("cannot generate state: request has no URL")]
    ELSE [state |-> encodeState(StateValues(nonce, then)), err |-> NoError])

\* Values that need escaping: a separator, an equals sign, an escape, a plus
\* and a space, a semicolon, bytes that are not ASCII, a URL.
AwkwardValues ==
  { Str(<<"x","&","t","h","e","n","=","/","e","v","i","l">>),
    Str(<<"%","4","1","%">>),
    Str(<<"a"," ","b","+","c",";","d","=">>),
    << 0, 233, 255 >>,
    Str(<<"/","c","b","?","x","=","1","&","y","=","%","2","6","#","f">>) }

\* The nonces d.csrf.Generate may answer
Nonces == { <<>>, Tokens[1] } \cup AwkwardValues

\* The requests a state is generated for: the requests that need
\* authentication, and a request without a URL.
GenerateRequests ==
  UnionRequests \cup { HttpRequest(<<>>, <<>>, <<>>, "none", FALSE, FALSE) }

\* A call of defaultState.Generate
GenerateCall ==
  /\ pc = "idle"
  /\ handler.type = "defaultState"
  /\ \E nonce \in Nonces, rq \in GenerateRequests :
       Return("Generate", nonce, rq, Begin, Generate(nonce, rq))

\* encodeState, then decodeState, for a csrf value and a then value that is
\* not empty
StateRoundTrip ==
  /\ pc = "idle"
  /\ handler.type = "defaultState"
  /\ \E csrf \in Nonces \cup TokenSet, then \in (AwkwardValues \cup ThenSet) \ { <<>> } :
       Return("StateRoundTrip", [csrf |-> csrf, then |-> then], NoRequest, Begin,
              decodeState(encodeState(StateValues(csrf, then))))

(***************************************************************************)
(* The objects and the specification                                       *)
(***************************************************************************)
Implementations == {"defaultState", "double"}

\* NewExternalOAuthRedirector: the state, success and error collaborators are
\* a defaultState or any other implementation (a double).
ExternalHandlers ==
  {[type |-> "external", state |-> s, success |-> su, errorHandler |-> e] :
     s \in Implementations, su \in Implementations, e \in Implementations}

\* NewOAuthPasswordAuthenticator
PasswordHandlers == {[type |-> "password"]}

\* CSRFRedirectingState
DefaultStates == {[type |-> "defaultState"]}

\* How many challengers and how many redirectors a union handler holds at
\* most.
MaxChallengers == 2

MaxRedirectors == 2

ChallengerNames == << "basic", "negotiate", "redirect", "custom" >>

RedirectorNames == << GitHub, GitLab, Bitbucket >>

AtMost(n, len) == IF n < len THEN n ELSE len

\* NewUnionAuthenticationHandler: the challengers by name, the redirector
\* registry in the order of registration, and maybe a selection handler.
UnionHandlers ==
  {[type |-> "union",
    challengers |-> {ChallengerNames[i] : i \in 1..c},
    redirectors |-> SubSeq(RedirectorNames, 1, r),
    selectionHandler |-> sel] :
     c \in 0..AtMost(MaxChallengers, Len(ChallengerNames)),
     r \in 0..AtMost(MaxRedirectors, Len(RedirectorNames)),
     sel \in BOOLEAN}

Handlers == ExternalHandlers \cup PasswordHandlers \cup DefaultStates \cup UnionHandlers

Init ==
  /\ handler \in Handlers
  /\ pc = "idle"
  /\ op = "none"
  /\ arg = NoResult
  /\ req = NoRequest
  /\ calls = <<>>
  /\ w = FreshResponse
  /\ ret = NoResult

\* The caller takes the result; the object waits for the next call.
NextCall ==
  /\ pc = "done"
  /\ pc' = "idle"
  /\ op' = "none"
  /\ arg' = NoResult
  /\ req' = NoRequest
  /\ calls' = <<>>
  /\ w' = FreshResponse
  /\ ret' = NoResult
  /\ UNCHANGED handler

Next ==
  \/ ServeHTTP
  \/ AuthenticatePassword
  \/ CheckCall
  \/ AuthenticationErrorCall
  \/ AuthenticationNeeded
  \/ GenerateCall
  \/ StateRoundTrip
  \/ NextCall

Spec == Init /\ [][Next]_vars

(***************************************************************************)
(* Properties                                                              *)
(***************************************************************************)
\* A call of the operation has returned.
Done(name) == pc = "done" /\ op = name

\* The calls of a collaborator operation, by their place in the order.
CallsOf(fn) == {i \in DOMAIN calls : calls[i].fn = fn}

\* state.Check answered (true, nil) at place j.
CheckPassed(j) ==
  calls[j].fn = "state.Check" /\ calls[j].yes /\ calls[j].err = NoError

AfterCheck ==
  { "accessReq.GetToken", "provider.GetUserIdentity", "mapper.UserFor",
    "success.AuthenticationSucceeded" }

\* C1: in ServeHTTP the code is exchanged for a token only after state.Check
\* answered (true, nil); when state.Check answered an error or false, there
\* is no token exchange, no identity resolution, no mapping and no success
\* handling.
TokenOnlyAfterValidState ==
  Done("ServeHTTP") =>
    /\ \A i \in CallsOf("accessReq.GetToken") : \E j \in 1..(i - 1) : CheckPassed(j)
    /\ \A j \in CallsOf("state.Check") :
         ~ CheckPassed(j) => \A i \in DOMAIN calls : calls[i].fn \notin AfterCheck

\* The code was exchanged for a token after defaultState accepted the state.
TokenAfterValidStateReached ==
  /\ Done("ServeHTTP")
  /\ handler.state = "defaultState"
  /\ CallsOf("accessReq.GetToken") # {}
  /\ \E j \in CallsOf("state.Check") : CheckPassed(j)

\* C2: defaultState.Check answers (true, nil) exactly when the state decodes,
\* the CSRF validator accepts its csrf value, and its then value is not
\* empty; otherwise it answers false with an error that is not nil.
CheckAcceptsExactlyValidState ==
  Done("Check") =>
    With(decodeState(arg), LAMBDA d :
      /\ ret.ok <=> /\ d.ok
                    /\ CSRFCheck(req, ValuesGet(d.values, CsrfKey))
                    /\ ValuesGet(d.values, ThenKey) # <<>>
      /\ ret.ok => ret.err = NoError
      /\ ~ ret.ok => ret.err # NoError)

\* Check accepted a state.
CheckAcceptedReached == Done("Check") /\ ret.ok /\ ret.err = NoError

\* The query the redirect of AuthenticationError must carry: the query of
\* "then" with error set to the id, and error_description and error_uri set
\* when they are not empty.
ExpectedEcho(q, e) ==
  [k \in DOMAIN q \cup {ErrorKey}
         \cup (IF e.description # <<>> THEN {ErrorDescriptionKey} ELSE {})
         \cup (IF e.uri # <<>> THEN {ErrorURIKey} ELSE {}) |->
     IF k = ErrorKey THEN << e.id >>
     ELSE IF k = ErrorDescriptionKey /\ e.description # <<>> THEN << e.description >>
     ELSE IF k = ErrorURIKey /\ e.uri # <<>> THEN << e.uri >>
     ELSE q[k]]

\* The "then" value of a state, "" for a state that does not decode.
ThenOf(state) ==
  With(decodeState(state), LAMBDA d : IF d.ok THEN ValuesGet(d.values, ThenKey) ELSE <<>>)

\* The conditions under which AuthenticationError redirects.
Redirectable(e, rq) ==
  /\ e.kind = "osin"
  /\ Len(e.id) > 0
  /\ Check(e.state, rq) = [ok |-> TRUE, err |-> NoError]
  /\ URLParse(ThenOf(e.state)).ok

\* The response is a 302 to target and nothing else.
RedirectedTo(rw, target) ==
  /\ rw.code = 302
  /\ rw.writeHeaderCalls = << 302 >>
  /\ HeaderValues(rw.header, "Location") = << target >>

\* target is the URL "then" with the error parameters of e in its query.
EchoesError(target, then, e) ==
  With(URLParse(target), LAMBDA t :
  With(URLParse(then), LAMBDA u :
    /\ t.ok
    /\ [t.url EXCEPT !.rawQuery = <<>>, !.forceQuery = FALSE]
         = [u.url EXCEPT !.rawQuery = <<>>, !.forceQuery = FALSE]
    /\ URLQuery(t.url) = ExpectedEcho(URLQuery(u.url), e)))

\* C3: defaultState.AuthenticationError writes a 302 to "then" and answers
\* (true, nil) exactly when the error is a provider error with a non-empty
\* id, its state passes Check and "then" parses as a URL; the target is
\* "then" with error set to the id and error_description and error_uri set
\* exactly when they are not empty; a state that fails the CSRF check gets
\* no redirect.
ErrorEchoedToThen ==
  Done("AuthenticationError") =>
    /\ (ret.handled /\ ret.err = NoError) <=> Redirectable(arg, req)
    /\ ret.handled <=> w # FreshResponse
    /\ ret.handled =>
         /\ RedirectedTo(w, HeaderGet(w.header, "Location"))
         /\ EchoesError(HeaderGet(w.header, "Location"), ThenOf(arg.state), arg)
    /\ (arg.kind = "osin" /\ ~ Check(arg.state, req).ok) => w = FreshResponse

\* A provider error with a description and no uri was echoed to a "then"
\* whose query already held an error parameter.
ErrorEchoedReached ==
  /\ Done("AuthenticationError")
  /\ ret.handled
  /\ w.code = 302
  /\ arg.description # <<>>
  /\ arg.uri = <<>>
  /\ ValuesGet(URLQuery(URLParse(ThenOf(arg.state)).url), ErrorKey) # <<>>

\* C4: when defaultState.AuthenticationError declines, it writes nothing and
\* returns exactly the error it was given, never nil.
DeclineReturnsOriginalError ==
  (Done("AuthenticationError") /\ ~ ret.handled) =>
    /\ w = FreshResponse
    /\ ret.err = arg
    /\ ret.err # NoError

\* C5: when authReq.HandleRequest fails, ServeHTTP goes straight to the error
\* path with that error: state.Check is not called, and there is no token
\* exchange, no identity resolution and no mapping.
HandleRequestFailureGoesToErrorPath ==
  (Done("ServeHTTP") /\ calls[1].fn = "authReq.HandleRequest" /\ calls[1].err # NoError) =>
    /\ Len(calls) = 2
    /\ calls[2].fn = "errorHandler.AuthenticationError"
    /\ calls[2].given = calls[1].err
    /\ CallsOf("state.Check") = {}
    /\ \A i \in DOMAIN calls : calls[i].fn \notin AfterCheck

\* A callback that carried a provider error was handled by defaultState.
HandleRequestFailureReached ==
  /\ Done("ServeHTTP")
  /\ calls[1].fn = "authReq.HandleRequest"
  /\ calls[1].err # NoError
  /\ calls[1].err.kind = "osin"
  /\ handler.errorHandler = "defaultState"
  /\ w.code = 302

CallbackSteps ==
  { "authReq.HandleRequest", "state.Check" } \cup AfterCheck

\* The error a step of the callback failed with, nil for a step that did not
\* fail: the error it returned, and "State is invalid" for a false answer of
\* state.Check.
StepError(e) ==
  IF e.err # NoError THEN e.err
  ELSE IF e.fn = "state.Check" /\ ~ e.yes THEN NewError("State is invalid")
  ELSE NoError

FailedSteps == {i \in DOMAIN calls : calls[i].fn \in CallbackSteps /\ StepError(calls[i]) # NoError}

\* C6: every failing callback invokes the error collaborator exactly once,
\* with the error of the failing step; when it answers handled = false the
\* generic 500 is written, and when it answers handled = true nothing is
\* written after it.
FailureReportedOnce ==
  Done("ServeHTTP") =>
    /\ Cardinality(FailedSteps) <= 1
    /\ Cardinality(CallsOf("errorHandler.AuthenticationError")) = Cardinality(FailedSteps)
    /\ \A i \in FailedSteps :
         With(calls[Len(calls)], LAMBDA last :
           /\ last.fn = "errorHandler.AuthenticationError"
           /\ last.given = StepError(calls[i])
           /\ ~ last.yes => w = HttpError(FreshResponse, ErrorOccured, 500)
           /\ last.yes => \E r \in ErrorHandlerResults(handler, last.given, FreshResponse, req) :
                            r.handled /\ w = r.w)

\* The token exchange failed, the error collaborator declined, and the
\* generic 500 was written.
FailureReportedReached ==
  /\ Done("ServeHTTP")
  /\ \E i \in FailedSteps : calls[i].fn = "accessReq.GetToken"
  /\ ~ calls[Len(calls)].yes
  /\ w.code = 500

\* C7: in AuthenticatePassword a token exchange that fails with the provider
\* error invalid_grant gives (nil, false, nil), and one that fails with any
\* other error gives (nil, false, that error); identity resolution and
\* mapping are not invoked.
PasswordRejectionIsNotAnError ==
  (Done("AuthenticatePassword") /\ calls[1].err # NoError) =>
    /\ calls[1].fn = "accessReq.GetToken"
    /\ Len(calls) = 1
    /\ ret.response = "nil"
    /\ ~ ret.ok
    /\ ret.err = IF calls[1].err.kind = "osin" /\ calls[1].err.id = InvalidGrant
                 THEN NoError ELSE calls[1].err

\* The provider rejected the password with invalid_grant.
PasswordRejectedReached ==
  /\ Done("AuthenticatePassword")
  /\ calls[1].err # NoError
  /\ calls[1].err.kind = "osin"
  /\ calls[1].err.id = InvalidGrant
  /\ ret = PasswordResult("nil", FALSE, NoError)

\* AuthenticationNeeded returned for a client that responds with challenges.
ChallengeCall ==
  Done("AuthenticationNeeded") /\ arg.isOAuthClient /\ arg.respondWithChallenges

\* The values the challengers that answered without error gave for a header,
\* in the order they were asked.
Offered(k) ==
  With(SelectSeq(calls, LAMBDA e : e.fn = "challenger.AuthenticationChallenge" /\ e.err = NoError),
       LAMBDA good : ValuesInOrder([i \in 1..Len(good) |-> good[i].given.headers], k))

\* The errors of the challengers that failed.
ChallengerErrors ==
  {calls[i].err : i \in {j \in CallsOf("challenger.AuthenticationChallenge") : calls[j].err # NoError}}

Range(seq) == {seq[i] : i \in DOMAIN seq}

ChallengeWritten == ChallengeCall /\ w.code # 0

\* The response is a 302 with exactly one Location and no WWW-Authenticate.
SingleRedirect ==
  /\ w.code = 302
  /\ Len(HeaderValues(w.header, "Location")) = 1
  /\ HeaderValues(w.header, "WWW-Authenticate") = <<>>

RedirectCall ==
  Done("AuthenticationNeeded") /\ arg.isOAuthClient /\ ~ arg.respondWithChallenges

\* The request names no idp.
NoIdp == ValuesGet(ParseQuery(req.rawQuery).values, IdpKey) = <<>>

\* No selection handler chose a provider, answered for itself or failed.
NoChoice ==
  \A i \in CallsOf("selectionHandler.SelectAuthentication") :
    ~ calls[i].yes /\ calls[i].err = NoError /\ calls[i].given.selected = <<>>

\* C10: outside the challenge branch, with no idp in the request and no
\* choice by a selection handler, the only redirector of a registry of one is
\* invoked; with more than one redirector AuthenticationNeeded returns
\* (false, an ambiguity error), invokes no redirector and writes nothing.
LoneRedirectorIsUsed ==
  (RedirectCall /\ NoIdp /\ NoChoice) =>
    /\ Len(handler.redirectors) = 1 =>
         /\ Cardinality(CallsOf("redirector.AuthenticationRedirect")) = 1
         /\ \A i \in CallsOf("redirector.AuthenticationRedirect") :
              calls[i].given = handler.redirectors[1]
    /\ Len(handler.redirectors) > 1 =>
         /\ ret = Outcome(FALSE, NewError("Too many potential redirect handlers"))
         /\ CallsOf("redirector.AuthenticationRedirect") = {}
         /\ w = FreshResponse

\* A selection handler made no choice among two redirectors: the request is
\* ambiguous.
AmbiguousRedirectReached ==
  /\ RedirectCall
  /\ NoIdp
  /\ NoChoice
  /\ CallsOf("selectionHandler.SelectAuthentication") # {}
  /\ Len(handler.redirectors) = 2
  /\ ~ ret.handled
  /\ ret.err = NewError("Too many potential redirect handlers")

\* The request names an idp.
HasIdp == ~ NoIdp

RedirectingCalls ==
  { "redirector.AuthenticationRedirect", "selectionHandler.SelectAuthentication",
    "errorHandler.AuthenticationError" }

\* C11: AuthenticationNeeded applies its branches in a fixed order.  For a
\* client that responds with challenges no redirector and no selection
\* handler is invoked and automatic selection is not reached, whatever idp
\* the request names and whatever the challengers answer.  Otherwise, for a
\* request that names an idp, the selection handler is not invoked and
\* automatic selection is not reached.  Otherwise the selection handler, if
\* there is one, is asked first, before automatic selection.
BranchesInOrder ==
  /\ ChallengeCall =>
       /\ \A i \in DOMAIN calls : calls[i].fn \notin RedirectingCalls
       /\ ret.err # NewError("Too many potential redirect handlers")
  /\ (RedirectCall /\ HasIdp) =>
       /\ CallsOf("selectionHandler.SelectAuthentication") = {}
       /\ CallsOf("challenger.AuthenticationChallenge") = {}
       /\ ret.err # NewError("Too many potential redirect handlers")
       /\ \A i \in CallsOf("redirector.AuthenticationRedirect") :
            calls[i].given = ValuesGet(ParseQuery(req.rawQuery).values, IdpKey)
  /\ (RedirectCall /\ NoIdp /\ handler.selectionHandler) =>
       /\ calls # <<>>
       /\ calls[1].fn = "selectionHandler.SelectAuthentication"
       /\ Cardinality(CallsOf("selectionHandler.SelectAuthentication")) = 1
  /\ (RedirectCall /\ NoIdp /\ ~ handler.selectionHandler) =>
       CallsOf("selectionHandler.SelectAuthentication") = {}

\* A client that responds with challenges asked for an idp that is
\* registered, with a selection handler at hand: only the challengers were
\* asked.
ChallengesBeforeIdpReached ==
  /\ ChallengeCall
  /\ HasIdp
  /\ handler.selectionHandler
  /\ RedirectorsGet(handler.redirectors, ValuesGet(ParseQuery(req.rawQuery).values, IdpKey))
  /\ CallsOf("challenger.AuthenticationChallenge") # {}
  /\ ret.handled

\* The idp the request names, "" for none.
RequestedIdp == ValuesGet(ParseQuery(req.rawQuery).values, IdpKey)

\* The call at place i failed and the error handler, asked next and last,
\* decided what AuthenticationNeeded returns.
ErrorHandlerDecides(i) ==
  /\ Len(calls) = i + 1
  /\ calls[i + 1].fn = "errorHandler.AuthenticationError"
  /\ calls[i + 1].given = calls[i].err
  /\ ret = Outcome(calls[i + 1].yes, calls[i + 1].err)

\* The redirector of the name was invoked at place i, no other redirector
\* was, and the call returns (true, nil) when it succeeds and what the error
\* handler answers when it fails.
RedirectedBy(name, i) ==
  /\ CallsOf("redirector.AuthenticationRedirect") = {i}
  /\ calls[i].given = name
  /\ IF calls[i].err = NoError
     THEN Len(calls) = i /\ ret = Outcome(TRUE, NoError)
     ELSE ErrorHandlerDecides(i)

\* C12: for a client that does not respond with challenges and a request
\* that names an idp: an idp that is not registered gives handled = false
\* with an error, no redirector invoked and nothing written; an idp that is
\* registered has exactly its redirector invoked, gives (true, nil) when
\* that succeeds, and gives what the error handler answers when it fails.
ExplicitIdpIsUsed ==
  (RedirectCall /\ HasIdp) =>
    IF RedirectorsGet(handler.redirectors, RequestedIdp)
    THEN RedirectedBy(RequestedIdp, 1)
    ELSE /\ ~ ret.handled
         /\ ret.err # NoError
         /\ calls = <<>>
         /\ w = FreshResponse

\* The redirector the request named failed, and the error handler answered
\* for it.
ExplicitIdpFailureReached ==
  /\ RedirectCall
  /\ HasIdp
  /\ Len(calls) = 2
  /\ calls[1].fn = "redirector.AuthenticationRedirect"
  /\ calls[1].err # NoError
  /\ ret.handled

\* The provider list the selection handler was given.
ProvidersGiven(i) == calls[i].given.providers

\* The query a provider URL must have: the query of the request with idp set
\* to the name.
ExpectedProviderQuery(q, name) ==
  [k \in DOMAIN q \cup {IdpKey} |-> IF k = IdpKey THEN << name >> ELSE q[k]]

EmptyRegistryIsNoError ==
  (RedirectCall /\ Len(handler.redirectors) = 0) => ret = Outcome(FALSE, NoError)

\* C14: with no redirector registered, a client that does not respond with
\* challenges, no idp in the request and no selection handler that fails,
\* answers for itself or chooses a provider, AuthenticationNeeded returns
\* handled = false with no error and writes nothing; a request that names
\* an idp gets handled = false with an error.
EmptyRegistryWithoutChoiceIsNoError ==
  (RedirectCall /\ Len(handler.redirectors) = 0) =>
    /\ (NoIdp /\ NoChoice) =>
         /\ ret = Outcome(FALSE, NoError)
         /\ CallsOf("redirector.AuthenticationRedirect") = {}
         /\ w = FreshResponse
    /\ HasIdp => ~ ret.handled /\ ret.err # NoError

\* With no redirector registered the selection handler made no choice, and
\* AuthenticationNeeded returned (false, nil).
EmptyRegistryReached ==
  /\ RedirectCall
  /\ Len(handler.redirectors) = 0
  /\ NoIdp
  /\ CallsOf("selectionHandler.SelectAuthentication") # {}
  /\ NoChoice
  /\ ret = Outcome(FALSE, NoError)

\* C15: decodeState(encodeState({csrf, then})) succeeds and gives the same
\* csrf and then, for every csrf and every then that is not empty; so a
\* state made by defaultState.Generate decodes to the nonce and to the URL of
\* the request as then, and passes Check for every request the CSRF
\* validator accepts the nonce for.
StateSurvivesRoundTrip ==
  /\ Done("StateRoundTrip") =>
       ret = [ok |-> TRUE, values |-> StateValues(arg.csrf, arg.then)]
  /\ (Done("Generate") /\ ret.err = NoError) =>
       /\ decodeState(ret.state)
            = [ok |-> TRUE, values |-> StateValues(arg, URLString(RequestURL(req)))]
       /\ \A rq \in StateRequests \cup { [req EXCEPT !.csrf = arg] } :
            CSRFCheck(rq, arg) => Check(ret.state, rq) = [ok |-> TRUE, err |-> NoError]
  /\ Done("Generate") => (ret.err = NoError <=> URLString(RequestURL(req)) # <<>>)

\* A state was generated from a nonce that holds a separator, for a request
\* with a query.
GeneratedStateReached ==
  /\ Done("Generate")
  /\ ret.err = NoError
  /\ \E i \in DOMAIN arg : arg[i] = Ord["&"]
  /\ req.rawQuery # <<>>
  /\ Check(ret.state, [req EXCEPT !.csrf = arg]).ok

\* The headers the challengers that answered without error gave.
OfferedKeys ==
  UNION { {k \in DOMAIN calls[i].given.headers : calls[i].given.headers[k] # <<>>} :
            i \in {j \in CallsOf("challenger.AuthenticationChallenge") : calls[j].err = NoError} }

\* The errors of the challengers that failed, in the order they were asked.
FailedChallenges ==
  With(SelectSeq(calls, LAMBDA e : e.fn = "challenger.AuthenticationChallenge" /\ e.err # NoError),
       LAMBDA bad : [i \in 1..Len(bad) |-> bad[i].err])

\* The headers of the challengers conflict: a Location with a
\* WWW-Authenticate, or more than one Location.
ChallengesConflict ==
  \/ Offered("Location") # <<>> /\ Offered("WWW-Authenticate") # <<>>
  \/ Len(Offered("Location")) > 1

\* C16: in the challenge branch, when no challenger gave a header,
\* AuthenticationNeeded returns handled = false with the aggregate of the
\* errors of the challengers, nil when none failed, and writes nothing; when
\* a challenger gave a header and the headers do not conflict, it returns
\* (true, nil) and the errors of the challengers that failed are not
\* reported.
ChallengeErrorsOnlyWithoutHeaders ==
  ChallengeCall =>
    /\ OfferedKeys = {} =>
         /\ ~ ret.handled
         /\ ret.err = IF FailedChallenges = <<>> THEN NoError
                      ELSE [kind |-> "aggregate", errors |-> FailedChallenges]
         /\ w = FreshResponse
    /\ (OfferedKeys # {} /\ ~ ChallengesConflict) => ret = Outcome(TRUE, NoError)

\* Two challengers failed and none gave a header: both errors are returned.
ChallengeErrorsReached ==
  /\ ChallengeCall
  /\ OfferedKeys = {}
  /\ Len(FailedChallenges) = 2
  /\ ~ ret.handled
  /\ ret.err # NoError
  /\ Len(ret.err.errors) = 2

CallbackOrder ==
  << "state.Check", "accessReq.GetToken", "provider.GetUserIdentity", "mapper.UserFor",
     "success.AuthenticationSucceeded" >>

\* The step at place i of the calls succeeded.
StepSucceeded(i) == StepError(calls[i]) = NoError

\* C17: within one callback the steps happen only in the order verify the
\* state, exchange the code, resolve the identity, map the identity, invoke
\* the success handler; every step runs at most once, and only when every
\* earlier step ran and succeeded; the success handler gets the state string
\* that was verified.
CallbackStepsInOrder ==
  Done("ServeHTTP") =>
    /\ \A k \in DOMAIN CallbackOrder : Cardinality(CallsOf(CallbackOrder[k])) <= 1
    /\ \A l \in DOMAIN CallbackOrder : \A j \in CallsOf(CallbackOrder[l]) :
         \A k \in 1..(l - 1) :
           \E i \in CallsOf(CallbackOrder[k]) : i < j /\ StepSucceeded(i)
    /\ \A j \in CallsOf("success.AuthenticationSucceeded") :
         \A i \in CallsOf("state.Check") : calls[j].given = calls[i].given

\* The success handler was invoked with a state defaultState had verified.
CallbackCompletedReached ==
  /\ Done("ServeHTTP")
  /\ handler.state = "defaultState"
  /\ \E j \in CallsOf("success.AuthenticationSucceeded") :
       calls[j].given # <<>> /\ calls[j].err = NoError
  /\ Len(calls) >= 6

\* The audit annotations made between place i and the last call.
AnnotationsAfter(i) ==
  [n \in 1..(Len(calls) - i - 1) |-> << calls[i + n].fn, calls[i + n].given >>]

\* The annotations of the three classes of identity failures.
DeniedAnnotations ==
  << << "audit.AddUsernameAnnotation", "identity" >>, << "audit.AddDecisionAnnotation", "deny" >> >>

FailedAnnotations ==
  << << "audit.AddUsernameAnnotation", "identity" >>, << "audit.AddDecisionAnnotation", "error" >> >>

GenericAnnotations == << << "audit.AddDecisionAnnotation", "error" >> >>

\* C18: when identity resolution fails in a callback, the failure is an
\* authorization denied, an authorization failed, or any other error; each
\* class has audit annotations of its own, and they are made before the
\* error handler is invoked.
IdentityFailureIsAnnotatedFirst ==
  Done("ServeHTTP") =>
    \A i \in CallsOf("provider.GetUserIdentity") :
      calls[i].err # NoError =>
        /\ calls[Len(calls)].fn = "errorHandler.AuthenticationError"
        /\ calls[Len(calls)].given = calls[i].err
        /\ Len(calls) > i
        /\ AnnotationsAfter(i) =
             IF calls[i].err.kind = "denied" THEN DeniedAnnotations
             ELSE IF calls[i].err.kind = "failed" THEN FailedAnnotations
             ELSE GenericAnnotations
        /\ Cardinality({DeniedAnnotations, FailedAnnotations, GenericAnnotations}) = 3

\* An authorization denied was annotated as a denial before the error
\* handler was asked.
IdentityDeniedReached ==
  /\ Done("ServeHTTP")
  /\ \E i \in CallsOf("provider.GetUserIdentity") :
       /\ calls[i].err # NoError
       /\ calls[i].err.kind = "denied"
       /\ calls[i + 2] = CallEntry("audit.AddDecisionAnnotation", "deny", TRUE, NoError)
       /\ calls[i + 3].fn = "errorHandler.AuthenticationError"

\* What automatic selection gives when it is reached after the calls so far.
AutoSelected(i) ==
  IF Len(handler.redirectors) = 1 THEN RedirectedBy(handler.redirectors[1], i + 1)
  ELSE /\ Len(calls) = i
       /\ ret = IF Len(handler.redirectors) > 1
                THEN Outcome(FALSE, NewError("Too many potential redirect handlers"))
                ELSE Outcome(FALSE, NoError)

\* C19: when the selection handler is asked: an error of it gives what the
\* error handler answers, and no redirector is invoked; a report that it
\* answered for itself gives (true, nil), and no redirector is invoked; a
\* provider that is registered has exactly its redirector invoked; a
\* provider that is not registered gives handled = false with an error, and
\* the error handler is not invoked; no provider, no answer and no error
\* lead to automatic selection.
SelectionOutcomes ==
  (RedirectCall /\ CallsOf("selectionHandler.SelectAuthentication") # {}) =>
    /\ calls[1].fn = "selectionHandler.SelectAuthentication"
    /\ IF calls[1].err # NoError
       THEN ErrorHandlerDecides(1)
       ELSE IF calls[1].yes
       THEN Len(calls) = 1 /\ ret = Outcome(TRUE, NoError)
       ELSE IF calls[1].given.selected = <<>>
       THEN AutoSelected(1)
       ELSE IF RedirectorsGet(handler.redirectors, calls[1].given.selected)
       THEN RedirectedBy(calls[1].given.selected, 2)
       ELSE /\ Len(calls) = 1
            /\ ~ ret.handled
            /\ ret.err # NoError

\* The selection handler chose a provider and answered for itself: no
\* redirector was invoked.
SelectionAnsweredReached ==
  /\ RedirectCall
  /\ Len(calls) = 1
  /\ calls[1].fn = "selectionHandler.SelectAuthentication"
  /\ calls[1].yes
  /\ calls[1].given.selected # <<>>
  /\ ret = Outcome(TRUE, NoError)

\* C20: when the challenge branch ends in the error of conflicting headers
\* or in the error of more than one Location, the response is as it was
\* before the call: no status, no body, and no header of the challengers in
\* the headers of the response writer.
ConflictLeavesResponseUntouched ==
  (ChallengeCall /\ ChallengesConflict) =>
    /\ w.code = 0
    /\ w.body = <<>>
    /\ \A k \in OfferedKeys : HeaderValues(w.header, k) = <<>>


\* The responses written during the call: a response is written once a
\* status stands, and every explicit status after the first is a second
\* response attempted on the same writer.
ResponsesWritten ==
  IF w.code = 0 THEN 0
  ELSE IF Len(w.writeHeaderCalls) > 1 THEN Len(w.writeHeaderCalls)
  ELSE 1

\* C21: every execution of the callback handler ends with exactly one
\* response written (by the success collaborator, by the error collaborator
\* or as the generic 500), whatever the collaborators answer, a success
\* collaborator answering handled = false without an error included.
CallbackWritesOneResponse ==
  Done("ServeHTTP") => ResponsesWritten = 1


\* The decision annotations of the call, by their place in the order.
DecisionAnnotations == CallsOf("audit.AddDecisionAnnotation")

AllowAnnotations == {i \in DecisionAnnotations : calls[i].given = "allow"}

\* The callback ended in success: its last step is the success collaborator,
\* and it returned no error.
CallbackSucceeded ==
  /\ Len(calls) > 0
  /\ calls[Len(calls)].fn = "success.AuthenticationSucceeded"
  /\ calls[Len(calls)].err = NoError

\* C22: a callback annotated with the allow decision ends in success, the
\* error collaborator is not invoked after the allow decision was annotated,
\* and a callback annotates at most one decision.
AllowedCallbackSucceeds ==
  Done("ServeHTTP") =>
    /\ Cardinality(DecisionAnnotations) <= 1
    /\ \A i \in AllowAnnotations :
         /\ CallbackSucceeded
         /\ \A j \in CallsOf("errorHandler.AuthenticationError") : j < i

\* The errors AuthenticationNeeded makes itself outside the challenge
\* branch: an idp or a selected provider that is not registered, and more
\* than one redirector to select from.
RedirectBranchErrors ==
  { NewError("Unable to locate redirect handler"),
    NewError("Too many potential redirect handlers") }

\* The errors AuthenticationNeeded makes itself in the challenge branch.
HeaderConflictErrors ==
  { NewError("redirect header and challenge header cannot both be set"),
    NewError("cannot set multiple redirect headers") }

\* The error returned is one AuthenticationNeeded made itself: one of the
\* errors of the redirect branches, or an aggregate that ends in the error of
\* a header conflict.
OwnError(e) ==
  \/ e \in RedirectBranchErrors
  \/ /\ e.kind = "aggregate"
     /\ e.errors[Len(e.errors)] \in HeaderConflictErrors

\* C23: a call of AuthenticationNeeded invokes AuthenticationRedirect at
\* most once, and so on at most one redirector; when it returns an error it
\* made itself (an idp or a selected provider that is not registered, more
\* than one redirector, conflicting headers), handled is false and the error
\* handler was not invoked.
OneRedirectAndOwnErrorsUnhandled ==
  Done("AuthenticationNeeded") =>
    /\ Cardinality(CallsOf("redirector.AuthenticationRedirect")) <= 1
    /\ OwnError(ret.err) =>
         /\ ~ ret.handled
         /\ CallsOf("errorHandler.AuthenticationError") = {}
         /\ CallsOf("redirector.AuthenticationRedirect") = {}

\* Two redirectors are registered and the selection handler made no choice:
\* the error of too many redirectors is returned, and neither a redirector
\* nor the error handler was invoked.
TooManyRedirectorsReached ==
  /\ Done("AuthenticationNeeded")
  /\ Len(handler.redirectors) = 2
  /\ Len(calls) = 1
  /\ calls[1].fn = "selectionHandler.SelectAuthentication"
  /\ ret = Outcome(FALSE, NewError("Too many potential redirect handlers"))


====
